---- MODULE Spec2Model ----
(***************************************************************************)
(* Verification model of f1taxmate: the tax rule engine (federal India     *)
(* rule, Illinois rule, jurisdiction dispatch), the Illinois form field    *)
(* mappers, the form -> results -> payment page flow, the days calculator  *)
(* of Form 8843, and the assembly of the PDF packages.                      *)
(*                                                                         *)
(* Money is an integer number of CENTS everywhere (the income step reads   *)
(* amounts with step 0.01), so Math.floor(x) is FloorDollars(x) and a      *)
(* whole-dollar value is a multiple of 100.  Decimal arithmetic is exact   *)
(* here; for whole-dollar taxable incomes 0..2,000,000 the IEEE-754        *)
(* results of the source's bracket and flat-rate formulas were compared    *)
(* with the exact ones and agree.  A blank (null) amount is read by the    *)
(* source as 0 (`x || 0`, `x ?? 0`) and is represented by 0.               *)
(***************************************************************************)
EXTENDS Integers, Sequences, FiniteSets, TLC

VARIABLES
  formData,       \* the FormData handed to the tax engine and the form fillers
  taxResult,      \* outcome of calculateTax(formData): none yet / error / result
  rulesRun,       \* which rule implementations calculateTax invoked
  illinoisForms,  \* field values written by the three Illinois form fillers
  federalForms,   \* field values written by the Form 1040-NR filler
  sessionStorage, \* the browser's sessionStorage items 'formData' and 'taxResult'
  page,           \* the page now shown, with its React state
  zip,            \* the last ZIP built by createZipFromPaidProducts
  residencyInfo,  \* the visits handed to the days calculator
  clock,          \* the browser's time zone and current date
  daysInUS,       \* outcome of calculateDaysInUSForYear: none yet / year and days
  assembly,       \* the package being created: its fills and its outcome
  generation,     \* outcome of generateTaxForms: none yet / form set / error
  pdfForm,        \* the template a filler has loaded, with its field values
  ficaInput,      \* SSN, W-2s and employer entries handed to the FICA refund fillers
  ficaForms,      \* field values written by the Form 843 and Form 8316 fillers
  bracketLookup,  \* the last federal calculation on a single wage amount
  checkout        \* the payment page's products, selection, promo code and charge

engineVars == << formData, taxResult, rulesRun, illinoisForms, federalForms >>

flowVars == << sessionStorage, page, zip >>

daysVars == << residencyInfo, clock, daysInUS >>

packageVars == << assembly, generation, pdfForm >>

ficaVars == << ficaInput, ficaForms >>

lookupVars == << bracketLookup >>

checkoutVars == << checkout >>

\* What the steps of each part leave alone.
nonEngineVars == << flowVars, daysVars, packageVars, ficaVars, lookupVars,
     checkoutVars >>

nonFlowVars == << engineVars, daysVars, packageVars, ficaVars, lookupVars,
     checkoutVars >>

nonDaysVars == << engineVars, flowVars, packageVars, ficaVars, lookupVars,
     checkoutVars >>

nonPackageVars == << engineVars, flowVars, daysVars, ficaVars, lookupVars,
     checkoutVars >>

nonFicaVars == << engineVars, flowVars, daysVars, packageVars, lookupVars,
     checkoutVars >>

nonLookupVars == << engineVars, flowVars, daysVars, packageVars, ficaVars,
     checkoutVars >>

nonCheckoutVars ==
  << engineVars, flowVars, daysVars, packageVars, ficaVars, lookupVars >>

\* ------------------------------------------------------------------ bounds
\* Largest number of income entries (W-2 + 1099-INT + 1099-MISC) on one form.
MaxEntries == 2

\* Visits to the United States listed in step 3.
MaxVisits == 2

\* Dollars looked at on either side of a bracket's upper end.
BoundaryWindow == 10

\* ------------------------------------------------------- arithmetic helpers
Max(a, b) == IF a >= b THEN a ELSE b

Min(a, b) == IF a <= b THEN a ELSE b

\* Math.floor on an amount held in cents: the largest whole-dollar amount <= c.
FloorDollars(c) == (c \div 100) * 100

\* floor(x * num / den) for x >= 0, split so that no intermediate product
\* leaves the 32-bit integer range.
MulDiv(x, num, den) == (x \div den) * num + ((x % den) * num) \div den

RECURSIVE SumSeq(_, _)
\* forEach accumulation `total += F(entry)` over a list.
SumSeq(F(_), s) == IF s = << >> THEN 0 ELSE F(Head(s)) + SumSeq(F, Tail(s))

\* ------------------------------------------------------------- input values
\* foreignAddress.country as typed by the filer; NoCountry is a missing value.
NoCountry == "<undefined>"

Countries == {NoCountry, "India", " INDIAN ", "   ", "Foreign Country", "China"}

\* incomeInfo.incomeState; Unset is the select left on its empty option.
Unset == "<unset>"

IncomeStates == {"Illinois", "Other", Unset}

\* W-2 entries: wages $10,000 / $30,000 / $250,000; federal withholding none or
\* $2,000; Illinois withholding $1,000 or $1,000.75; FICA withheld or not.
W2Values ==
  [ wages : {1000000, 3000000, 25000000},
    federalTaxWithheld : {0, 200000},
    stateTaxWithheld : {100000, 100075},
    socialSecurityWithheld : {0, 186000},
    medicareWithheld : {0} ]

\* 1099-INT entries: interest $0.50 / $1.00, with or without withholding.
INTValues ==
  [ interestIncome : {50, 100},
    federalTaxWithheld : {0, 1025},
    stateTaxWithheld : {0, 2575} ]

\* 1099-MISC entries: other income $90,000 / $650,000.
MISCValues ==
  [ otherIncome : {9000000, 65000000},
    federalTaxWithheld : {0},
    stateTaxWithheld : {0, 1250} ]

\* ------------------------------------------------- federal rule (India)
\* TAX_BRACKETS: min/max/base in cents, rate in percent.
\* max: Infinity of the last bracket, as an amount above every modelled income.
Infinity == 2000000000

TAX_BRACKETS ==
  << [min |-> 0,        max |-> 1192500,  rate |-> 10, base |-> 0],
     [min |-> 1192600,  max |-> 4847500,  rate |-> 12, base |-> 119250],
     [min |-> 4847600,  max |-> 10335000, rate |-> 22, base |-> 557850],
     [min |-> 10335100, max |-> 19730000, rate |-> 24, base |-> 1765100],
     [min |-> 19730100, max |-> 25052500, rate |-> 32, base |-> 4019900],
     [min |-> 25052600, max |-> 62635000, rate |-> 35, base |-> 5723100],
     [min |-> 62635100, max |-> Infinity, rate |-> 37, base |-> 18876975] >>

STANDARD_DEDUCTION == 1575000

Wages(w2) == w2.wages

InterestIncome(f) == f.interestIncome

OtherIncome(f) == f.otherIncome

FederalTaxWithheld(e) == e.federalTaxWithheld

\* Math.floor(entry.stateTaxWithheld ?? 0)
FlooredStateTaxWithheld(e) == FloorDollars(e.stateTaxWithheld)

FICAWithheld(w2) == w2.socialSecurityWithheld + w2.medicareWithheld

\* Sum of W-2 wages, 1099-INT interest and 1099-MISC other income (unfloored).
calculateGrossIncome(fd) ==
  SumSeq(Wages, fd.w2Forms) + SumSeq(InterestIncome, fd.form1099INT)
    + SumSeq(OtherIncome, fd.form1099MISC)

\* Sum of federal withholding over all three income kinds (unfloored).
calculateTotalTaxWithheld(fd) ==
  SumSeq(FederalTaxWithheld, fd.w2Forms) + SumSeq(FederalTaxWithheld, fd.form1099INT)
    + SumSeq(FederalTaxWithheld, fd.form1099MISC)

\* Variant: the bracket's upper end taken as exclusive.
findBracket_exclusiveMax(taxableIncome) ==
  LET hits == { i \in 1..Len(TAX_BRACKETS) :
                  /\ taxableIncome >= TAX_BRACKETS[i].min
                  /\ taxableIncome < TAX_BRACKETS[i].max }
  IN IF hits = {} THEN 0 ELSE CHOOSE i \in hits : \A j \in hits : i <= j

\* TAX_BRACKETS.find(b => taxableIncome >= b.min && taxableIncome <= b.max):
\* the index of the first matching bracket, 0 when none matches.
findBracket(taxableIncome) ==
  LET hits == { i \in 1..Len(TAX_BRACKETS) :
                  /\ taxableIncome >= TAX_BRACKETS[i].min
                  /\ taxableIncome <= TAX_BRACKETS[i].max }
  IN IF hits = {} THEN 0 ELSE CHOOSE i \in hits : \A j \in hits : i <= j

\* Variant: the marginal rate applied without subtracting the bracket floor.
calculateProgressiveTax_wholeIncome(taxableIncome) ==
  IF taxableIncome <= 0 THEN 0
  ELSE LET i == findBracket(taxableIncome)
       IN IF i = 0 THEN 0
          ELSE TAX_BRACKETS[i].base + MulDiv(taxableIncome, TAX_BRACKETS[i].rate, 100)

\* Variant: the bracket's base tax left out.
calculateProgressiveTax_noBase(taxableIncome) ==
  IF taxableIncome <= 0 THEN 0
  ELSE LET i == findBracket(taxableIncome)
       IN IF i = 0 THEN 0
          ELSE MulDiv(taxableIncome - TAX_BRACKETS[i].min, TAX_BRACKETS[i].rate, 100)

\* bracket.base + (taxableIncome - bracket.min) * bracket.rate, in cents
\* (fractions of a cent dropped; the caller floors to dollars).
calculateProgressiveTax(taxableIncome) ==
  IF taxableIncome <= 0 THEN 0
  ELSE LET i == findBracket(taxableIncome)
       IN IF i = 0 THEN 0
          ELSE TAX_BRACKETS[i].base
                 + MulDiv(taxableIncome - TAX_BRACKETS[i].min, TAX_BRACKETS[i].rate, 100)

federalTaxableIncome(fd) ==
  FloorDollars(Max(0, calculateGrossIncome(fd) - STANDARD_DEDUCTION))

\* Variant: refund and amount owed left unfloored.
calculateFederalTax_unfloored(fd) ==
  LET taxWithheld == calculateTotalTaxWithheld(fd)
      taxOwed     == FloorDollars(calculateProgressiveTax(federalTaxableIncome(fd)))
  IN [ taxOwed    |-> taxOwed,
       refund     |-> Max(0, taxWithheld - taxOwed),
       amountOwed |-> Max(0, taxOwed - taxWithheld),
       forms      |-> [ form8843 |-> TRUE,
                        form1040 |-> fd.hadUSIncome,
                        form832  |-> SumSeq(FICAWithheld, fd.w2Forms) > 0 ] ]

\* Variant: amount owed reported as the tax itself, withholding not subtracted.
calculateFederalTax_owedIgnoresWithholding(fd) ==
  LET taxWithheld == calculateTotalTaxWithheld(fd)
      taxOwed     == FloorDollars(calculateProgressiveTax(federalTaxableIncome(fd)))
  IN [ taxOwed    |-> taxOwed,
       refund     |-> FloorDollars(Max(0, taxWithheld - taxOwed)),
       amountOwed |-> taxOwed,
       forms      |-> [ form8843 |-> TRUE,
                        form1040 |-> fd.hadUSIncome,
                        form832  |-> SumSeq(FICAWithheld, fd.w2Forms) > 0 ] ]

\* Variant: FICA withheld counted as federal income tax withholding.
calculateFederalTax_ficaAsWithholding(fd) ==
  LET taxWithheld == calculateTotalTaxWithheld(fd) + SumSeq(FICAWithheld, fd.w2Forms)
      taxOwed     == FloorDollars(calculateProgressiveTax(federalTaxableIncome(fd)))
  IN [ taxOwed    |-> taxOwed,
       refund     |-> FloorDollars(Max(0, taxWithheld - taxOwed)),
       amountOwed |-> FloorDollars(Max(0, taxOwed - taxWithheld)),
       forms      |-> [ form8843 |-> TRUE,
                        form1040 |-> fd.hadUSIncome,
                        form832  |-> SumSeq(FICAWithheld, fd.w2Forms) > 0 ] ]

calculateFederalTax(fd) ==
  LET taxWithheld == calculateTotalTaxWithheld(fd)
      taxOwed     == FloorDollars(calculateProgressiveTax(federalTaxableIncome(fd)))
  IN [ taxOwed    |-> taxOwed,
       refund     |-> FloorDollars(Max(0, taxWithheld - taxOwed)),
       amountOwed |-> FloorDollars(Max(0, taxOwed - taxWithheld)),
       forms      |-> [ form8843 |-> TRUE,
                        form1040 |-> fd.hadUSIncome,
                        form832  |-> SumSeq(FICAWithheld, fd.w2Forms) > 0 ] ]

\* ------------------------------------------------- state rule (Illinois)
\* ILLINOIS_TAX_RATE 0.0495, as ten-thousandths.
ILLINOIS_TAX_RATE == 495

PERSONAL_EXEMPTION_SINGLE == 285000

HIGH_INCOME_THRESHOLD == 25000000

calculateGrossIncomeIllinois(fd) ==
  SumSeq(Wages, fd.w2Forms) + SumSeq(InterestIncome, fd.form1099INT)
    + SumSeq(OtherIncome, fd.form1099MISC)

\* Sum of floor(per-entry state withholding) over W-2, 1099-INT and 1099-MISC.
calculateStateTaxWithheld(fd) ==
  SumSeq(FlooredStateTaxWithheld, fd.w2Forms)
    + SumSeq(FlooredStateTaxWithheld, fd.form1099INT)
    + SumSeq(FlooredStateTaxWithheld, fd.form1099MISC)

\* Variant: the exemption already lost at exactly the threshold.
illinoisExemption_atThreshold(fd) ==
  IF calculateGrossIncomeIllinois(fd) >= HIGH_INCOME_THRESHOLD
    THEN 0 ELSE PERSONAL_EXEMPTION_SINGLE

illinoisExemption(fd) ==
  IF calculateGrossIncomeIllinois(fd) > HIGH_INCOME_THRESHOLD
    THEN 0 ELSE PERSONAL_EXEMPTION_SINGLE

illinoisTaxableIncome(fd) ==
  FloorDollars(Max(0, calculateGrossIncomeIllinois(fd) - illinoisExemption(fd)))

\* Variant: the flat rate applied to the unfloored taxable income and rounded
\* to the nearest dollar instead of down.
calculateStateTax_rounded(fd) ==
  LET stateTaxWithheld == calculateStateTaxWithheld(fd)
      taxOwed == FloorDollars(MulDiv(illinoisTaxableIncome(fd), ILLINOIS_TAX_RATE, 10000) + 50)
  IN [ taxOwed    |-> taxOwed,
       refund     |-> FloorDollars(Max(0, stateTaxWithheld - taxOwed)),
       amountOwed |-> FloorDollars(Max(0, taxOwed - stateTaxWithheld)),
       forms      |-> [ form1040 |-> fd.hadUSIncome ] ]

calculateStateTax(fd) ==
  LET stateTaxWithheld == calculateStateTaxWithheld(fd)
      taxOwed == FloorDollars(MulDiv(illinoisTaxableIncome(fd), ILLINOIS_TAX_RATE, 10000))
  IN [ taxOwed    |-> taxOwed,
       refund     |-> FloorDollars(Max(0, stateTaxWithheld - taxOwed)),
       amountOwed |-> FloorDollars(Max(0, taxOwed - stateTaxWithheld)),
       forms      |-> [ form1040 |-> fd.hadUSIncome ] ]

\* ------------------------------------------------- jurisdiction dispatch
\* countryRaw.toLowerCase().trim() on the country strings of Countries.
toLowerCaseTrim(s) ==
  CASE s = "India"           -> "india"
    [] s = " INDIAN "        -> "indian"
    [] s = "   "             -> ""
    [] s = "Foreign Country" -> "foreign country"
    [] s = "China"           -> "china"
    [] OTHER                 -> s

\* JavaScript falsiness of foreignAddress.country (undefined or empty string).
isFalsy(c) == c = NoCountry \/ c = ""

\* Variant: the India rule as the default branch for every country.
usesIndiaRule_default(c) == TRUE

\* The `if` of calculateTax that selects the India rule.
usesIndiaRule(c) ==
  LET countryRaw == IF isFalsy(c) THEN "India" ELSE c
      country    == toLowerCaseTrim(countryRaw)
  IN \/ country = "india"
     \/ country = "indian"
     \/ country = ""
     \/ country = "foreign country"
     \/ isFalsy(c)

NoResult == [status |-> "none"]

\* calculateTax threw `Federal tax calculation not yet supported for ...`.
NotSupported == [status |-> "error"]

ZeroStateTax == [taxOwed |-> 0, refund |-> 0, amountOwed |-> 0, forms |-> [form1040 |-> FALSE]]

\* Variant: the Illinois rule run whatever the income state.
calculateTax_alwaysState(fd) ==
  IF usesIndiaRule(fd.country)
    THEN [ status     |-> "ok",
           federalTax |-> calculateFederalTax(fd),
           stateTax   |-> calculateStateTax(fd) ]
    ELSE NotSupported

calculateTax(fd) ==
  IF usesIndiaRule(fd.country)
    THEN [ status     |-> "ok",
           federalTax |-> calculateFederalTax(fd),
           stateTax   |-> IF fd.incomeState = "Illinois"
                            THEN calculateStateTax(fd) ELSE ZeroStateTax ]
    ELSE NotSupported

\* The rule modules calculateTax imports and runs for this form data.
rulesRunBy(fd) ==
  IF usesIndiaRule(fd.country)
    THEN {"federal/india"} \cup (IF fd.incomeState = "Illinois" THEN {"state/illinois"} ELSE {})
    ELSE {}

\* getMinimalTaxResultFor8843()
getMinimalTaxResultFor8843 ==
  [ status     |-> "ok",
    federalTax |-> [ taxOwed |-> 0, refund |-> 0, amountOwed |-> 0,
                     forms |-> [form8843 |-> TRUE, form1040 |-> FALSE, form832 |-> FALSE] ],
    stateTax   |-> ZeroStateTax ]

\* ------------------------------------------------- Illinois form mappers
\* A text field holding a number is represented by the amount (in cents) that
\* its decimal numeral denotes.
\* formatCurrencyForPDFWholeOnly(amount) = String(Math.floor(amount))
formatCurrencyForPDFWholeOnly(amount) == FloorDollars(amount)

MAX_W2_ROWS == 5

calculateGrossIncomeForms(fd) ==
  SumSeq(Wages, fd.w2Forms) + SumSeq(InterestIncome, fd.form1099INT)
    + SumSeq(OtherIncome, fd.form1099MISC)

calculateStateTaxWithheldForForms(fd) ==
  SumSeq(FlooredStateTaxWithheld, fd.w2Forms)
    + SumSeq(FlooredStateTaxWithheld, fd.form1099INT)
    + SumSeq(FlooredStateTaxWithheld, fd.form1099MISC)

\* Fields of il-1040.pdf (named after the template's field names).
fillFormIL1040(fd, tr) ==
  LET grossIncome      == calculateGrossIncomeForms(fd)
      stateTaxWithheld == calculateStateTaxWithheldForForms(fd)
      exemption        == IF grossIncome > 25000000 THEN 0 ELSE 285000
      taxableIncome    == Max(0, grossIncome - exemption)
      refund           == tr.stateTax.refund
      amountOwed       == tr.stateTax.amountOwed
  IN [ FederallyAdjustedIncome  |-> formatCurrencyForPDFWholeOnly(grossIncome),
       ExemptionAmount          |-> formatCurrencyForPDFWholeOnly(exemption),
       ExemptionAllowance       |-> formatCurrencyForPDFWholeOnly(exemption),
       IllinoisNetIncome        |-> formatCurrencyForPDFWholeOnly(taxableIncome),
       IncomeTax                |-> formatCurrencyForPDFWholeOnly(tr.stateTax.taxOwed),
       IllinoisIncomeTaxWithheld |-> formatCurrencyForPDFWholeOnly(stateTaxWithheld),
       TotalPayments            |-> formatCurrencyForPDFWholeOnly(stateTaxWithheld),
       OverpaymentAmount        |-> IF refund > 0 THEN formatCurrencyForPDFWholeOnly(refund) ELSE 0,
       RefundedToYou            |-> IF refund > 0 THEN formatCurrencyForPDFWholeOnly(refund) ELSE 0,
       AmountYouOwe             |-> IF amountOwed > 0 THEN formatCurrencyForPDFWholeOnly(amountOwed) ELSE 0 ]

\* Fields of il-1040-schedule-il-wit.pdf: one row per W-2 (at most MAX_W2_ROWS)
\* and `Total amount`, the sum of the rows' floored Illinois withholding.
fillFormIL1040ScheduleILWIT(fd) ==
  LET rows == SubSeq(fd.w2Forms, 1, Min(Len(fd.w2Forms), MAX_W2_ROWS))
  IN [ IllinoisWithheld |-> [ i \in 1..Len(rows) |-> FlooredStateTaxWithheld(rows[i]) ],
       TotalAmount      |-> SumSeq(FlooredStateTaxWithheld, rows) ]

calculateGrossIncomeNR(fd) ==
  SumSeq(Wages, fd.w2Forms) + SumSeq(InterestIncome, fd.form1099INT)
    + SumSeq(OtherIncome, fd.form1099MISC)

\* Fields of il-1040-schedule-nr.pdf, Step 5.
fillFormIL1040ScheduleNR(fd, tr) ==
  LET grossIncome   == calculateGrossIncomeNR(fd)
      exemption     == IF grossIncome > 25000000 THEN 0 ELSE 285000
      taxableIncome == Max(0, grossIncome - exemption)
  IN [ Line46 |-> formatCurrencyForPDFWholeOnly(taxableIncome),
       Line47 |-> formatCurrencyForPDFWholeOnly(grossIncome),
       Line49 |-> formatCurrencyForPDFWholeOnly(exemption),
       Line50 |-> formatCurrencyForPDFWholeOnly(exemption),
       Line51 |-> formatCurrencyForPDFWholeOnly(taxableIncome),
       Line52 |-> formatCurrencyForPDFWholeOnly(tr.stateTax.taxOwed) ]

\* incomeInfo.bankDetails as step 4 leaves it: always an object, blank until
\* the filer types the numbers in.
BlankBankDetails == [accountNumber |-> "", routingNumber |-> "", accountType |-> "checking"]

BankDetailsValues ==
  { BlankBankDetails,
    [accountNumber |-> "000123456789", routingNumber |-> "071000013",
     accountType |-> "savings"] }

\* The form data handed to the fillers: the income entries and the bank details.
withBankDetails(fd, bank) ==
  [k \in DOMAIN fd \cup {"bankDetails"} |-> IF k = "bankDetails" THEN bank ELSE fd[k]]

\* Direct deposit fields of il-1040.pdf, blank ("untouched" for the checkbox)
\* when the filler does not write them.
fillFormIL1040DirectDeposit(fd, tr) ==
  IF tr.stateTax.refund > 0
    THEN [ RoutingNumber |-> fd.bankDetails.routingNumber,
           AccountNumber |-> fd.bankDetails.accountNumber,
           account_type  |-> IF fd.bankDetails.accountType = "checking"
                               THEN "checked" ELSE "unchecked" ]
    ELSE [ RoutingNumber |-> "", AccountNumber |-> "", account_type |-> "untouched" ]

\* Variant: only the W-2s' withholding counted.
calculateFederalTaxWithheld_w2Only(fd) == SumSeq(FederalTaxWithheld, fd.w2Forms)

calculateFederalTaxWithheld(fd) ==
  SumSeq(FederalTaxWithheld, fd.w2Forms) + SumSeq(FederalTaxWithheld, fd.form1099INT)
    + SumSeq(FederalTaxWithheld, fd.form1099MISC)

\* Fields of f1040nr.pdf, page 2: tax (f2_09), federal tax withheld (f2_21),
\* overpaid (f2_36), refund (f2_37), routing number (f2_38) and account
\* number (f2_39); a field not written stays blank.
fillForm1040NR(fd, tr) ==
  LET federalTaxWithheld == calculateFederalTaxWithheld(fd)
      overpaid == Max(0, federalTaxWithheld - tr.federalTax.taxOwed)
      refund   == IF tr.federalTax.refund > 0 THEN tr.federalTax.refund ELSE overpaid
  IN [ f2_09 |-> formatCurrencyForPDFWholeOnly(tr.federalTax.taxOwed),
       f2_21 |-> formatCurrencyForPDFWholeOnly(federalTaxWithheld),
       f2_36 |-> formatCurrencyForPDFWholeOnly(overpaid),
       f2_37 |-> formatCurrencyForPDFWholeOnly(refund),
       f2_38 |-> fd.bankDetails.routingNumber,
       f2_39 |-> fd.bankDetails.accountNumber ]

NoForms == [status |-> "none"]

\* ------------------------------------------------- days calculator
\* A date 'YYYY-MM-DD' is the number of days since 2023-01-01; an instant (a
\* JavaScript Date) is the number of half-hours since 2023-01-01T00:00Z.
HalfHoursPerDay == 48

Aug15_2023 == 226

Jan1_2024 == 365

Jan10_2024 == 374

Jun10_2024 == 526

Dec31_2024 == 730

May10_2025 == 860

Jul1_2025 == 912

Dec31_2025 == 1095

Jan5_2026 == 1100

Mar1_2026 == 1155

\* exitDate '' (the visit has not ended).
NoDate == -1

\* January 1 and December 31 of a tax year.
YearStart(year) ==
  CASE year = 2023 -> 0 [] year = 2024 -> 365 [] year = 2025 -> 731 [] year = 2026 -> 1096

YearEnd(year) == YearStart(year + 1) - 1

\* The browser's time zone: the server default, the zone of Illinois, the zone
\* of India.
TimeZones == {"UTC", "America/Chicago", "Asia/Kolkata"}

\* US daylight time in 2023..2026: from 2:00 on the second Sunday of March
\* (08:00Z) to 2:00 on the first Sunday of November (07:00Z).
ChicagoDST == { << 70, 308 >>, << 434, 672 >>, << 798, 1036 >>, << 1162, 1400 >> }

\* Local time minus UTC, in half-hours, at instant t.
offsetAt(tz, t) ==
  CASE tz = "UTC" -> 0
    [] tz = "Asia/Kolkata" -> 11
    [] tz = "America/Chicago" ->
         IF \E p \in ChicagoDST : t >= 48 * p[1] + 16 /\ t < 48 * p[2] + 14
           THEN -10 ELSE -12

\* Local time minus UTC at 00:00 local time of local day m.
offsetAtLocalMidnight(tz, m) ==
  CASE tz = "UTC" -> 0
    [] tz = "Asia/Kolkata" -> 11
    [] tz = "America/Chicago" ->
         IF \E p \in ChicagoDST : p[1] < m /\ m <= p[2] THEN -10 ELSE -12

\* new Date('YYYY-MM-DD'): a date-only string is read as midnight UTC.
newDate(d) == HalfHoursPerDay * d

\* date.setHours(0, 0, 0, 0): midnight LOCAL time of the local day of t.
setHoursZero(tz, t) ==
  LET m == (t + offsetAt(tz, t)) \div HalfHoursPerDay
  IN HalfHoursPerDay * m - offsetAtLocalMidnight(tz, m)

\* new Date(): the current instant, taken as 12:00Z of the current date.
currentInstant(clk) == HalfHoursPerDay * clk.today + 24

RECURSIVE forEachVisit(_, _, _, _)
\* The forEach body over the remaining visits.  taxYearEnd is threaded through:
\* for a visit without exit date in a past year `exit` IS the taxYearEnd object,
\* so exit.setHours(0,0,0,0) moves taxYearEnd itself.
forEachVisit(visits, taxYearStart, taxYearEnd, clk) ==
  IF visits = << >> THEN 0
  ELSE
    LET visit == Head(visits)
    IN IF visit.entryDate = NoDate
         THEN forEachVisit(Tail(visits), taxYearStart, taxYearEnd, clk)
         ELSE
           LET hasExit   == visit.exitDate # NoDate
               now       == currentInstant(clk)
               aliased   == ~hasExit /\ ~(now < taxYearEnd)
               entry     == setHoursZero(clk.timeZone, newDate(visit.entryDate))
               exit      == setHoursZero(clk.timeZone,
                              IF hasExit THEN newDate(visit.exitDate)
                              ELSE IF now < taxYearEnd THEN now ELSE taxYearEnd)
               yearEnd   == IF aliased THEN exit ELSE taxYearEnd
               startDate == Max(entry, taxYearStart)
               endDate   == Min(exit, yearEnd)
               diffDays  == (endDate - startDate) \div HalfHoursPerDay
               counted   ==
                 IF startDate <= endDate
                   THEN IF hasExit /\ exit <= yearEnd /\ exit >= taxYearStart
                          THEN diffDays ELSE diffDays + 1
                   ELSE 0
           IN counted + forEachVisit(Tail(visits), taxYearStart, yearEnd, clk)

\* Variant: a visit is attributed to the year it ends in, so a visit that runs
\* past December 31 counts nothing for the queried year.
calculateDaysInUSForYear_exitYearOnly(ri, year, clk) ==
  forEachVisit(SelectSeq(ri.visits,
                         LAMBDA v : v.exitDate = NoDate \/ v.exitDate <= YearEnd(year)),
               newDate(YearStart(year)), newDate(YearEnd(year)), clk)

calculateDaysInUSForYear(ri, year, clk) ==
  forEachVisit(ri.visits, newDate(YearStart(year)), newDate(YearEnd(year)), clk)

NoDays == [status |-> "none"]

\* ------------------------------------------------- package assembly
\* Largest number of pages of a filled template.
MaxPages == 2

\* Outcome of fetch(`/forms/${filename}`): a response that is ok, a response
\* that is not ok, or a rejected fetch.
Responses == {"ok", "notOk", "failed"}

Rejected(message) == [status |-> "rejected", error |-> message]

\* loadPDFTemplate: the loaded document (its page count), or the error thrown.
loadPDFTemplate(filename, response, pages) ==
  IF response = "ok" THEN [status |-> "fulfilled", pages |-> pages]
  ELSE IF response = "notOk" THEN Rejected("Failed to load PDF template")
  ELSE Rejected("fetch failed")

\* The template each filler loads.
templateOf(fill) ==
  CASE fill = "fillForm1040NR" -> "f1040nr"
    [] fill = "fillForm1040NRO" -> "f1040nro"
    [] fill = "fillForm8843" -> "f8843"
    [] fill = "fillFormIL1040" -> "il-1040"
    [] fill = "fillFormIL1040ScheduleILWIT" -> "il-1040-schedule-il-wit"
    [] fill = "fillFormIL1040ScheduleNR" -> "il-1040-schedule-nr"
    [] fill = "fillForm843" -> "f843"
    [] fill = "fillForm8316" -> "f8316"

\* A filler awaits loadPDFTemplate, sets fields and saves: the buffer has the
\* template's pages, and a failed load rejects the fill.
fillForm(fill, response, pages) == loadPDFTemplate(templateOf(fill), response, pages)

ProductIds == {"federal", "form8843", "illinois", "fica"}

\* The fills each package issues, in the order it names them.
packageFills(product) ==
  CASE product = "federal" -> << "fillForm1040NR", "fillForm1040NRO", "fillForm8843" >>
    [] product = "illinois" ->
         << "fillFormIL1040", "fillFormIL1040ScheduleILWIT", "fillFormIL1040ScheduleNR" >>
    [] product = "fica" -> << "fillForm843", "fillForm8316" >>
    [] product = "form8843" -> << "fillForm8843" >>

\* 'Sign on page 2' / 'No signature required' in each package's instructions.
signatureRequired(product) ==
  CASE product = "federal" -> {"f1040nr"}
    [] product = "illinois" -> {"il-1040"}
    [] product = "fica" -> {"f843", "f8316"}
    [] product = "form8843" -> {"f8843"}

\* `completed` lists the settled fills in the order they settled.
isSettled(completed, fill) == \E k \in 1..Len(completed) : completed[k].fill = fill

resultOf(completed, fill) ==
  completed[CHOOSE k \in 1..Len(completed) : completed[k].fill = fill].result

firstRejected(completed) ==
  completed[CHOOSE k \in 1..Len(completed) :
              /\ completed[k].result.status = "rejected"
              /\ \A j \in 1..(k - 1) : completed[j].result.status # "rejected"].result

\* Variant: the values come in the order the fills settled.
PromiseAll_settleOrder(fills, completed) ==
  IF \E k \in 1..Len(completed) : completed[k].result.status = "rejected"
    THEN firstRejected(completed)
    ELSE [ status |-> "fulfilled",
           values |-> [i \in 1..Len(fills) |->
                         [name |-> templateOf(completed[i].fill),
                          pages |-> completed[i].result.pages]] ]

\* Promise.all: rejects with the first rejection; otherwise the values are in
\* the order of the promises passed, whatever the order they settled in.
PromiseAll(fills, completed) ==
  IF \E k \in 1..Len(completed) : completed[k].result.status = "rejected"
    THEN firstRejected(completed)
    ELSE [ status |-> "fulfilled",
           values |-> [i \in 1..Len(fills) |->
                         [name |-> templateOf(fills[i]),
                          pages |-> resultOf(completed, fills[i]).pages]] ]

\* doc.copyPages(pdf, pdf.getPageIndices()) then addPage for each.
copyPages(pdf) ==
  [i \in 1..pdf.pages |-> [kind |-> "copied", doc |-> pdf.name, page |-> i]]

\* The explanation pages, which every package adds first (one block).
explanationPages == << [kind |-> "instructions", doc |-> "instructions", page |-> 1] >>

\* The page drawn in place of a document without pages.
placeHolder(name) == << [kind |-> "placeholder", doc |-> name, page |-> 1] >>

Package(pages) == [status |-> "fulfilled", pages |-> pages]

createFederalPackage(v) ==
  IF v[1].pages = 0 THEN Rejected("Form 1040-NR has no pages.")
  ELSE IF v[3].pages = 0 THEN Rejected("Form 8843 has no pages.")
  ELSE Package(explanationPages \o copyPages(v[1])
                 \o (IF v[2].pages > 0 THEN copyPages(v[2]) ELSE placeHolder(v[2].name))
                 \o copyPages(v[3]))

\* `if (n > 0)` copies the pages; a document without pages adds nothing.
createIllinoisPackage(v) ==
  Package(explanationPages \o copyPages(v[1]) \o copyPages(v[2]) \o copyPages(v[3]))

createFicaPackage(v) ==
  IF v[1].pages = 0 THEN Rejected("Form 843 has no pages.")
  ELSE IF v[2].pages = 0 THEN Rejected("Form 8316 has no pages.")
  ELSE Package(explanationPages \o copyPages(v[1]) \o copyPages(v[2]))

create8843Package(v) ==
  IF v[1].pages = 0 THEN Rejected("Form 8843 has no pages.")
  ELSE Package(explanationPages \o copyPages(v[1]))

\* The part of create<Product>Package after its fills: a rejected fill
\* rejects the package.
createPackage(product, all) ==
  IF all.status = "rejected" THEN all
  ELSE CASE product = "federal" -> createFederalPackage(all.values)
         [] product = "illinois" -> createIllinoisPackage(all.values)
         [] product = "fica" -> createFicaPackage(all.values)
         [] product = "form8843" -> create8843Package(all.values)

NoAssembly == [phase |-> "idle"]

\* ------------------------------------------------- generateTaxForms
\* The templates generateTaxForms loads.
FormSetTemplates ==
  { "f8843", "f1040nr", "il-1040", "il-1040-schedule-nr", "il-1040-schedule-il-wit",
    "f843", "f8316" }

\* The forms the tax result asks for: federalTax.forms.form8843, .form1040,
\* .form832 and stateTax.forms.form1040.
FormFlags ==
  [form8843 : BOOLEAN, form1040 : BOOLEAN, stateForm1040 : BOOLEAN, form832 : BOOLEAN]

\* The fills are awaited one after the other; the first that rejects outside
\* a try block rejects generateTaxForms.  Only Form 8843 is filled inside a
\* try block, whose catch logs a warning and goes on.
generateTaxForms(flags, response) ==
  LET failed(t) == response[t] # "ok"
      form8843 == IF flags.form8843 /\ ~failed("f8843") THEN {"form8843"} ELSE {}
      federal  == IF flags.form1040 THEN {"form1040Federal"} ELSE {}
      state    == IF flags.stateForm1040
                    THEN {"form1040State", "form1040StateScheduleNR",
                          "form1040StateScheduleILWIT"}
                    ELSE {}
      fica     == IF flags.form832 THEN {"form843", "form8316"} ELSE {}
  IN IF flags.form1040 /\ failed("f1040nr")
       THEN Rejected("f1040nr")
     ELSE IF flags.stateForm1040 /\ failed("il-1040")
       THEN Rejected("il-1040")
     ELSE IF flags.stateForm1040 /\ failed("il-1040-schedule-nr")
       THEN Rejected("il-1040-schedule-nr")
     ELSE IF flags.stateForm1040 /\ failed("il-1040-schedule-il-wit")
       THEN Rejected("il-1040-schedule-il-wit")
     ELSE IF flags.form832 /\ failed("f843")
       THEN Rejected("f843")
     ELSE IF flags.form832 /\ failed("f8316")
       THEN Rejected("f8316")
     ELSE [status |-> "fulfilled", forms |-> form8843 \cup federal \cup state \cup fica]

NoGeneration == [status |-> "none"]

\* ------------------------------------------------- PDF field setters
\* Field names the fillers write to (Form 8316: a text field and a radio
\* group; Form 1040-NR: a checkbox) and how many setter calls a fill makes.
MaxCalls == 3

FieldNames == {"FillText12", "c1_1", "A"}

\* What the template has under a name: nothing, or a field of some type.
FieldKinds == {"absent", "text", "checkbox", "radio"}

\* Values are strings: a checkbox is "checked" or "unchecked", a radio group
\* holds the selected option, "" is blank.
TextValues == {"", "3125550100"}

RadioOptions == {"1", "2"}

blankValue(kind) == IF kind = "checkbox" THEN "unchecked" ELSE ""

\* form.getForm().getFields().find(f => f.getName() === fieldName)
getFormField(form, fieldName) == form.fields[fieldName]

\* console.warn(...) and return.
warn(form, fieldName) == [form EXCEPT !.warnings = @ \cup {fieldName}]

setTextField(form, fieldName, value) ==
  LET field == getFormField(form, fieldName)
  IN IF field.kind = "text"
       THEN [form EXCEPT !.fields[fieldName].value = value]
       ELSE warn(form, fieldName)

setCheckboxField(form, fieldName, checked) ==
  LET field == getFormField(form, fieldName)
  IN IF field.kind = "checkbox"
       THEN [form EXCEPT !.fields[fieldName].value =
                           IF checked THEN "checked" ELSE "unchecked"]
       ELSE warn(form, fieldName)

\* Variant without the try block: getRadioGroup throws for a name that is not
\* a radio group, and the error leaves the setter.
setRadioGroup_uncaught(form, fieldName, optionValue) ==
  IF form.fields[fieldName].kind = "radio"
    THEN [form EXCEPT !.fields[fieldName].value = optionValue]
    ELSE [form EXCEPT !.raised = TRUE]

\* form.getForm().getRadioGroup(fieldName) throws for a name that is not a
\* radio group; the catch logs a warning.
setRadioGroup(form, fieldName, optionValue) ==
  IF form.fields[fieldName].kind = "radio"
    THEN [form EXCEPT !.fields[fieldName].value = optionValue]
    ELSE warn(form, fieldName)

NoPdfForm == [status |-> "none"]

\* ------------------------------------------------- pages and products
\* sessionStorage.getItem(..) === null / React state `null`.
NoFormData == [missing |-> TRUE]

EmptyStorage == [formData |-> NoFormData, taxResult |-> NoResult]

NoZip == [created |-> FALSE]

\* FormPage's initial state `{}`: no section filled in.
BlankForm ==
  [ country |-> NoCountry, incomeState |-> Unset, hadUSIncome |-> FALSE,
    w2Forms |-> << >>, form1099INT |-> << >>, form1099MISC |-> << >>,
    ficaEmployerInfo |-> << >> ]

\* W-2s entered in the page flow: wages $30,000 or $250,000 with $2,000 federal
\* and $1,000 Illinois withholding, FICA withheld or not.
FlowW2s ==
  { w \in W2Values : /\ w.wages \in {3000000, 25000000}
                     /\ w.federalTaxWithheld = 200000
                     /\ w.stateTaxWithheld = 100000 }

\* Forms that pass the validation of steps 1-4: a filer without US income has
\* no income entries, or still has the Illinois W-2 with FICA entered before
\* switching the answer to "no" (the switch keeps them); one with US income has
\* an income state and a W-2.  Step 4 rebuilds incomeInfo without
\* ficaEmployerInfo.  One form names a country the engine does not support.
FlowForms ==
  { [ country |-> "India", incomeState |-> Unset, hadUSIncome |-> FALSE,
      w2Forms |-> << >>, form1099INT |-> << >>, form1099MISC |-> << >>,
      ficaEmployerInfo |-> << >> ],
    [ country |-> "India", incomeState |-> "Illinois", hadUSIncome |-> FALSE,
      w2Forms |-> << [ wages |-> 3000000, federalTaxWithheld |-> 200000,
                       stateTaxWithheld |-> 100000, socialSecurityWithheld |-> 186000,
                       medicareWithheld |-> 0 ] >>,
      form1099INT |-> << >>, form1099MISC |-> << >>,
      ficaEmployerInfo |-> << >> ] }
  \cup
  { fd \in { [ country |-> c, incomeState |-> s, hadUSIncome |-> TRUE,
                w2Forms |-> << w >>, form1099INT |-> << >>, form1099MISC |-> << >>,
                ficaEmployerInfo |-> << >> ] :
                c \in {"India", "China"}, s \in {"Illinois", "Other"}, w \in FlowW2s } :
      fd.country = "China" =>
        /\ fd.incomeState = "Illinois"
        /\ fd.w2Forms[1].wages = 3000000
        /\ FICAWithheld(fd.w2Forms[1]) = 0 }

\* FICAEmployerEntry values typed on the results page ("" is a blank input).
EmployerEntries ==
  [ employerName : {"", "Acme Corp"}, employerAddress : {"", "1 Main St, Chicago, IL 60601"} ]

IsFicaW2(w2) == FICAWithheld(w2) > 0

\* formData?.incomeInfo?.w2Forms?.filter(FICA withheld > 0) ?? []
w2WithFica(fd) ==
  IF fd = NoFormData THEN << >> ELSE SelectSeq(fd.w2Forms, IsFicaW2)

\* The effect that seeds ficaEmployerInfo once a result with form832 exists.
initialFicaEmployerInfo(fd, tr) ==
  LET n == Len(w2WithFica(fd))
  IN IF fd = NoFormData \/ tr = NoResult \/ n = 0 THEN << >>
     ELSE IF ~tr.federalTax.forms.form832 THEN << >>
     ELSE IF Len(fd.ficaEmployerInfo) = n THEN fd.ficaEmployerInfo
     ELSE [ i \in 1..n |->
              IF i <= Len(fd.ficaEmployerInfo) THEN fd.ficaEmployerInfo[i]
              ELSE [employerName |-> "", employerAddress |-> ""] ]

\* totalOwed > totalRefund on the results page.
hasNetUnderpayment(tr) ==
  LET totalRefund == tr.federalTax.refund + tr.stateTax.refund
      totalOwed   == tr.federalTax.amountOwed + tr.stateTax.amountOwed
  IN totalOwed > totalRefund

\* SuccessPage after its mount effect, given the sessionStorage contents.
SuccessPage(store) ==
  LET stored == store.formData
      shown(fd, tr, err) ==
        [ route |-> "success", formData |-> fd, taxResult |-> tr, error |-> err,
          ficaEmployerInfo |-> initialFicaEmployerInfo(fd, tr),
          skipFICA |-> FALSE, ficaEmployerError |-> FALSE ]
  IN IF stored = NoFormData THEN shown(NoFormData, NoResult, TRUE)
     ELSE IF ~stored.hadUSIncome THEN shown(stored, NoResult, FALSE)
     ELSE LET result == calculateTax(stored)
          IN IF result.status = "ok" THEN shown(stored, result, FALSE)
             ELSE shown(stored, NoResult, TRUE)

\* getApplicableProducts(formData), as the set of product ids.
getApplicableProducts(fd) ==
  IF fd = NoFormData THEN {}
  ELSE IF ~fd.hadUSIncome THEN {"form8843"}
  ELSE {"federal"}
         \cup (IF fd.incomeState = "Illinois" THEN {"illinois"} ELSE {})
         \cup (IF Len(w2WithFica(fd)) > 0 THEN {"fica"} ELSE {})

\* PaymentPage after its mount effect, given the sessionStorage contents.
PaymentPage(store) ==
  IF store.formData = NoFormData
    THEN [ route |-> "payment", formData |-> NoFormData, taxResult |-> NoResult,
           selectedIds |-> {}, paymentSuccess |-> FALSE ]
    ELSE [ route |-> "payment", formData |-> store.formData,
           taxResult |-> store.taxResult,
           selectedIds |-> getApplicableProducts(store.formData),
           paymentSuccess |-> FALSE ]

\* createZipFromPaidProducts: the files put in the ZIP and what they were
\* filled from.
createZipFromPaidProducts(paidProductIds, fd, tr) ==
  [ created |-> TRUE,
    files |-> (IF "federal" \in paidProductIds THEN {"Federal_Tax_Return_2025.pdf"} ELSE {})
         \cup (IF "form8843" \in paidProductIds THEN {"Form_8843_2025.pdf"} ELSE {})
         \cup (IF "illinois" \in paidProductIds THEN {"Illinois_State_Return_2025.pdf"} ELSE {})
         \cup (IF "fica" \in paidProductIds THEN {"FICA_Refund_2025.pdf"} ELSE {}),
    formData |-> fd,
    taxResult |-> tr ]

\* ------------------------------------------------------ payment page prices
\* Amounts on the payment page are in tenths of a cent, so that 10% of a
\* total of whole cents is exact.
\* FORM_PRODUCTS[id].price
price(id) ==
  CASE id = "form8843" -> 4990
    [] id = "federal"  -> 9990
    [] id = "illinois" -> 14990
    [] id = "fica"     -> 25990

RECURSIVE sumPrices(_)
\* applicableProducts.forEach(p => { if (selectedIds.has(p.id)) sum += p.price })
sumPrices(ids) ==
  IF ids = {} THEN 0
  ELSE LET id == CHOOSE id \in ids : TRUE IN price(id) + sumPrices(ids \ {id})

\* String.prototype.toUpperCase, on the letters the promo codes are typed with.
toUpperCase(text) ==
  [ n \in 1..Len(text) |->
      CASE text[n] = "s" -> "S" [] text[n] = "a" -> "A" [] text[n] = "v" -> "V"
        [] text[n] = "e" -> "E" [] OTHER -> text[n] ]

SAVE10OVER50 == << "S", "A", "V", "E", "1", "0", "O", "V", "E", "R", "5", "0" >>

GUNTURKIMIRCHI ==
  << "G", "U", "N", "T", "U", "R", "K", "I", "M", "I", "R", "C", "H", "I" >>

SAVE10 == << "S", "A", "V", "E", "1", "0" >>

SAVE5 == << "S", "A", "V", "E", "5" >>

F1TAX == << "F", "1", "T", "A", "X" >>

\* `discount` left null: the code is refused.
NoDiscount == -1

\* The discount handleApplyPromo computes for a code at a total.
promoDiscount(code, total) ==
  CASE code = SAVE10OVER50   -> IF total > 50000 THEN total \div 10 ELSE NoDiscount
    [] code = GUNTURKIMIRCHI -> total
    [] code = SAVE10         -> total \div 10
    [] code = SAVE5          -> 5000
    [] code = F1TAX          -> 2990
    [] OTHER                 -> NoDiscount

\* appliedPromo === null
NoPromo == [code |-> << >>, discount |-> 0]

\* Math.max(0, total - (appliedPromo?.discount ?? 0))
finalTotal(co) == Max(0, sumPrices(co.selectedIds) - co.appliedPromo.discount)

\* The payment page has not been opened.
NoCheckout == [status |-> "none"]

\* -------------------------------------------------- FICA refund forms
\* A string the fillers take apart is the sequence of its characters.
Digits == {"0", "1", "2", "3", "4", "5", "6", "7", "8", "9"}

isDigit(c) == c \in Digits

\* value.replace(/\D/g, '')
digitsOf(s) == SelectSeq(s, isDigit)

\* s.slice(a, b), a and b counted from 0.
slice(s, a, b) == SubSeq(s, a + 1, Min(b, Len(s)))

RECURSIVE trimStart(_)
trimStart(s) == IF s # << >> /\ Head(s) = " " THEN trimStart(Tail(s)) ELSE s

RECURSIVE trimEnd(_)
trimEnd(s) ==
  IF s # << >> /\ s[Len(s)] = " " THEN trimEnd(SubSeq(s, 1, Len(s) - 1)) ELSE s

\* String.prototype.trim
trim(s) == trimEnd(trimStart(s))

\* formatSSN: XXX-XX-XXXX for nine digits, else the digits alone.
formatSSN(ssn) ==
  IF ssn = << >> THEN << >>
  ELSE LET cleaned == digitsOf(ssn)
       IN IF Len(cleaned) = 9
            THEN slice(cleaned, 0, 3) \o << "-" >> \o slice(cleaned, 3, 5)
                   \o << "-" >> \o slice(cleaned, 5, 9)
            ELSE cleaned

\* The text 'See W-2' written in place of a missing EIN.
SeeW2 == << "See W-2" >>

\* einFormatted of fillForm8316 for one W-2.
einFormatted(w2) ==
  LET ein == digitsOf(w2.ein)
  IN IF Len(ein) >= 2 THEN slice(ein, 0, 2) \o << "-" >> \o slice(ein, 2, Len(ein))
     ELSE IF ein # << >> THEN ein ELSE SeeW2

\* ficaEmployerInfo[i]?.employerName?.trim() || '' (and the address likewise).
employerField(info, i, field) ==
  IF i <= Len(info) THEN trim(info[i][field]) ELSE << >>

isNonEmpty(part) == part # << >>

\* employerBlocks of fillForm8316: per W-2 with FICA the name, the address and
\* the EIN line, the empty parts dropped (filter(Boolean)).
employerBlocks(w2s, info) ==
  [ i \in 1..Len(w2s) |->
      LET name    == employerField(info, i, "employerName")
          address == employerField(info, i, "employerAddress")
          einLine == << "EIN: " >> \o einFormatted(w2s[i])
      IN [ name |-> name, address |-> address, einLine |-> einLine,
           parts |-> SelectSeq(<< name, address, einLine >>, isNonEmpty) ] ]

\* fillForm8316 with every W-2 taken for one with FICA withheld.
fillForm8316_allW2s(fd) ==
  LET blocks == employerBlocks(fd.w2Forms, fd.ficaEmployerInfo)
  IN [ employerHeader |-> blocks,
       acknowledged |-> fd.w2Forms # << >> ]

\* fillForm8316: FillText7 carries the employer header (the blocks; every block
\* has its EIN line, so the 'See attached W-2' lines are written for no W-2
\* list) and the statement, which says the employer 'acknowledged' the mistake
\* when there is a W-2 with FICA.
fillForm8316(fd) ==
  LET w2s    == SelectSeq(fd.w2Forms, IsFicaW2)
      blocks == employerBlocks(w2s, fd.ficaEmployerInfo)
  IN [ employerHeader |-> blocks,
       acknowledged |-> w2s # << >> ]

socialSecurityOf(w2) == w2.socialSecurityWithheld

medicareOf(w2) == w2.medicareWithheld

\* fillForm843: the SSN, the amount to be refunded, the line 3a note, and the
\* explanation's employer label and amounts.
fillForm843(fd) ==
  LET w2s           == SelectSeq(fd.w2Forms, IsFicaW2)
      totalSS       == SumSeq(socialSecurityOf, w2s)
      totalMedicare == SumSeq(medicareOf, w2s)
      totalFICAFloor == FloorDollars(totalSS + totalMedicare)
  IN [ f1_3  |-> formatSSN(fd.ssn),
       f1_19 |-> totalFICAFloor,
       f1_20 |-> IF totalFICAFloor > 0 THEN "See attached" ELSE "",
       employerEIN |-> IF w2s # << >> /\ w2s[1].ein # << >> THEN w2s[1].ein ELSE SeeW2,
       ssFloor |-> FloorDollars(totalSS),
       medicareFloor |-> FloorDollars(totalMedicare) ]

\* No federal calculation on a single wage amount has run yet.
NoLookup == [status |-> "none"]

\* incomeInfo as the income step starts it: no SSN, no W-2, no employer entry.
NoFicaInput == [ssn |-> << >>, w2Forms |-> << >>, ficaEmployerInfo |-> << >>]

\* ----------------------------------------------- tax engine specification
EmptyForm ==
  [ country |-> NoCountry, incomeState |-> Unset, hadUSIncome |-> FALSE,
    w2Forms |-> << >>, form1099INT |-> << >>, form1099MISC |-> << >> ]

entryCount(fd) == Len(fd.w2Forms) + Len(fd.form1099INT) + Len(fd.form1099MISC)

Init ==
  /\ formData = EmptyForm
  /\ taxResult = NoResult
  /\ rulesRun = {}
  /\ illinoisForms = NoForms
  /\ federalForms = NoForms
  /\ sessionStorage = EmptyStorage
  /\ page = [route |-> "form", formData |-> BlankForm]
  /\ zip = NoZip
  /\ residencyInfo = [visits |-> << >>]
  /\ clock = [timeZone |-> "UTC", today |-> Mar1_2026]
  /\ daysInUS = NoDays
  /\ assembly = NoAssembly
  /\ generation = NoGeneration
  /\ pdfForm = NoPdfForm
  /\ ficaInput = NoFicaInput
  /\ ficaForms = NoForms
  /\ bracketLookup = NoLookup
  /\ checkout = NoCheckout

editing == taxResult = NoResult

SetCountry(c) ==
  /\ editing
  /\ formData' = [formData EXCEPT !.country = c]
  /\ UNCHANGED << taxResult, rulesRun, illinoisForms, federalForms, nonEngineVars >>

SetIncomeState(s) ==
  /\ editing
  /\ formData' = [formData EXCEPT !.incomeState = s]
  /\ UNCHANGED << taxResult, rulesRun, illinoisForms, federalForms, nonEngineVars >>

SetHadUSIncome(b) ==
  /\ editing
  /\ formData' = [formData EXCEPT !.hadUSIncome = b]
  /\ UNCHANGED << taxResult, rulesRun, illinoisForms, federalForms, nonEngineVars >>

AddW2(w) ==
  /\ editing
  /\ entryCount(formData) < MaxEntries
  /\ formData' = [formData EXCEPT !.w2Forms = Append(@, w)]
  /\ UNCHANGED << taxResult, rulesRun, illinoisForms, federalForms, nonEngineVars >>

Add1099INT(f) ==
  /\ editing
  /\ entryCount(formData) < MaxEntries
  /\ formData' = [formData EXCEPT !.form1099INT = Append(@, f)]
  /\ UNCHANGED << taxResult, rulesRun, illinoisForms, federalForms, nonEngineVars >>

Add1099MISC(f) ==
  /\ editing
  /\ entryCount(formData) < MaxEntries
  /\ formData' = [formData EXCEPT !.form1099MISC = Append(@, f)]
  /\ UNCHANGED << taxResult, rulesRun, illinoisForms, federalForms, nonEngineVars >>

\* calculateTax(formData): a result, or the not-supported error.
CalculateTax ==
  /\ editing
  /\ taxResult' = calculateTax(formData)
  /\ rulesRun' = rulesRunBy(formData)
  /\ UNCHANGED << formData, illinoisForms, federalForms, nonEngineVars >>

\* createIllinoisPackage(formData, taxResult): the three Illinois fillers run on
\* the same form data and tax result.  The Illinois product exists only for a
\* filer with US income earned in Illinois (getApplicableProducts).
CreateIllinoisPackage(bank) ==
  /\ taxResult.status = "ok"
  /\ illinoisForms = NoForms
  /\ formData.hadUSIncome
  /\ formData.incomeState = "Illinois"
  /\ illinoisForms' =
       [ status |-> "filled",
         il1040 |-> fillFormIL1040(formData, taxResult),
         ilwit  |-> fillFormIL1040ScheduleILWIT(formData),
         nr     |-> fillFormIL1040ScheduleNR(formData, taxResult),
         deposit |-> fillFormIL1040DirectDeposit(withBankDetails(formData, bank),
                                                 taxResult) ]
  /\ UNCHANGED << formData, taxResult, rulesRun, federalForms, nonEngineVars >>

\* createFederalPackage(formData, taxResult): the Form 1040-NR filler.  The
\* federal product exists only for a filer with US income.
CreateFederalPackage(bank) ==
  /\ taxResult.status = "ok"
  /\ federalForms = NoForms
  /\ formData.hadUSIncome
  /\ federalForms' =
       [ status |-> "filled",
         f1040nr |-> fillForm1040NR(withBankDetails(formData, bank), taxResult) ]
  /\ UNCHANGED << formData, taxResult, rulesRun, illinoisForms, nonEngineVars >>

Next ==
  \/ \E c \in Countries : SetCountry(c)
  \/ \E s \in IncomeStates : SetIncomeState(s)
  \/ \E b \in BOOLEAN : SetHadUSIncome(b)
  \/ \E w \in W2Values : AddW2(w)
  \/ \E f \in INTValues : Add1099INT(f)
  \/ \E f \in MISCValues : Add1099MISC(f)
  \/ CalculateTax
  \/ CreateIllinoisPackage(BlankBankDetails)

vars ==
  << formData, taxResult, rulesRun, illinoisForms, federalForms, sessionStorage, page, zip,
     residencyInfo, clock, daysInUS, assembly, generation, pdfForm, ficaInput, ficaForms,
     bracketLookup, checkout >>

Spec == Init /\ [][Next]_vars

\* ------------------------------------------------ tax return specification
\* The returns of a filer who enters W-2s (the income step takes no other
\* income form) and bank details, then has the federal and the Illinois
\* return filled.
ReturnNext ==
  \/ \E c \in Countries : SetCountry(c)
  \/ \E s \in IncomeStates : SetIncomeState(s)
  \/ \E b \in BOOLEAN : SetHadUSIncome(b)
  \/ \E w \in W2Values : AddW2(w)
  \/ CalculateTax
  \/ \E bank \in BankDetailsValues : CreateIllinoisPackage(bank)
  \/ \E bank \in BankDetailsValues : CreateFederalPackage(bank)

ReturnSpec == Init /\ [][ReturnNext]_vars

\* --------------------------------------------- federal return specification
\* The federal return of a filer with any of the three income forms: the tax
\* is calculated and Form 1040-NR filled from the same form data.
FederalReturnNext ==
  \/ \E c \in Countries : SetCountry(c)
  \/ \E b \in BOOLEAN : SetHadUSIncome(b)
  \/ \E w \in W2Values : AddW2(w)
  \/ \E f \in INTValues : Add1099INT(f)
  \/ \E f \in MISCValues : Add1099MISC(f)
  \/ CalculateTax
  \/ CreateFederalPackage(BlankBankDetails)

FederalReturnSpec == Init /\ [][FederalReturnNext]_vars

\* ---------------------------------------------- wage income specification
\* The calculation over the W-2s alone: the filer chooses country and income
\* state, enters W-2s, and calculateTax runs on what is entered.
WageNext ==
  \/ \E c \in Countries : SetCountry(c)
  \/ \E s \in IncomeStates : SetIncomeState(s)
  \/ \E w \in W2Values : AddW2(w)
  \/ CalculateTax

WageSpec == Init /\ [][WageNext]_vars

\* --------------------------------------------------- page flow specification
\* Opening /form (a link, 'Go Back to Form', the address bar or history):
\* FormPage's mount effect clears both sessionStorage items and the form.
OpenForm ==
  /\ sessionStorage' = EmptyStorage
  /\ page' = [route |-> "form", formData |-> BlankForm]
  /\ UNCHANGED << zip, nonFlowVars >>

\* Opening /form?review=1 ('Back to Forms'): the stored form data, if any, is
\* restored; nothing is removed from sessionStorage.
OpenFormReview ==
  /\ page' = [ route |-> "form",
               formData |-> IF sessionStorage.formData = NoFormData
                              THEN BlankForm ELSE sessionStorage.formData ]
  /\ UNCHANGED << sessionStorage, zip, nonFlowVars >>

\* updateFormData: the steps' onUpdate with the sections as now filled in.
updateFormData(fd) ==
  /\ page.route = "form"
  /\ page' = [page EXCEPT !.formData = fd]
  /\ UNCHANGED << sessionStorage, zip, nonFlowVars >>

\* handleNext on the review step: with US income it needs an entry with income
\* (otherwise an alert and nothing else); the form data is stored and /success
\* opened, whose mount effect runs calculateTax.
handleNext ==
  /\ page.route = "form"
  /\ LET fd == page.formData
     IN \/ ~fd.hadUSIncome
        \/ \E i \in 1..Len(fd.w2Forms) : fd.w2Forms[i].wages > 0
        \/ \E i \in 1..Len(fd.form1099INT) : fd.form1099INT[i].interestIncome > 0
        \/ \E i \in 1..Len(fd.form1099MISC) : fd.form1099MISC[i].otherIncome > 0
  /\ sessionStorage' = [sessionStorage EXCEPT !.formData = page.formData]
  /\ page' = SuccessPage(sessionStorage')
  /\ UNCHANGED << zip, nonFlowVars >>

\* Opening /success directly (address bar, history, reload).
OpenSuccess ==
  /\ page' = SuccessPage(sessionStorage)
  /\ UNCHANGED << sessionStorage, zip, nonFlowVars >>

\* The FICA section of the results page is rendered.
ficaSectionShown ==
  /\ page.route = "success"
  /\ ~page.error
  /\ page.taxResult # NoResult
  /\ page.taxResult.federalTax.forms.form832

\* The "I don't want to file FICA" checkbox.
setSkipFICA(checked) ==
  /\ ficaSectionShown
  /\ page' = [page EXCEPT !.skipFICA = checked, !.ficaEmployerError = FALSE]
  /\ UNCHANGED << sessionStorage, zip, nonFlowVars >>

\* Typing in the employer name / address inputs of employer i.
setFicaEmployerInfo(i, entry) ==
  /\ ficaSectionShown
  /\ ~page.skipFICA
  /\ i \in 1..Len(page.ficaEmployerInfo)
  /\ page' = [page EXCEPT !.ficaEmployerInfo[i] = entry, !.ficaEmployerError = FALSE]
  /\ UNCHANGED << sessionStorage, zip, nonFlowVars >>

\* 'Proceed to Payment' is rendered: always for a filer without US income,
\* otherwise only when the result shows no net underpayment.
proceedShown ==
  /\ page.route = "success"
  /\ ~page.error
  /\ \/ ~page.formData.hadUSIncome
     \/ page.taxResult # NoResult /\ ~hasNetUnderpayment(page.taxResult)

\* handleProceedToPayment storing the tax result before it validates the
\* employer entries.
handleProceedToPayment_storeFirst ==
  /\ proceedShown
  /\ LET form832 == page.taxResult # NoResult /\ page.taxResult.federalTax.forms.form832
         toSave  == form832 /\ ~page.skipFICA
         info    == page.ficaEmployerInfo
         missingFields ==
           \E i \in 1..Len(info) : info[i].employerName = "" \/ info[i].employerAddress = ""
         stored1 == IF page.taxResult # NoResult
                      THEN [sessionStorage EXCEPT !.taxResult = page.taxResult]
                      ELSE sessionStorage
         stored2 == IF toSave
                      THEN [stored1 EXCEPT !.formData =
                              [page.formData EXCEPT !.ficaEmployerInfo = info]]
                      ELSE stored1
     IN IF toSave /\ Len(info) > 0 /\ missingFields
          THEN /\ page' = [page EXCEPT !.ficaEmployerError = TRUE]
               /\ sessionStorage' = stored1
          ELSE /\ sessionStorage' = stored2
               /\ page' = PaymentPage(stored2)
  /\ UNCHANGED << zip, nonFlowVars >>

\* handleProceedToPayment(form832 && !skipFICA ? ficaEmployerInfo : undefined)
handleProceedToPayment ==
  /\ proceedShown
  /\ LET form832 == page.taxResult # NoResult /\ page.taxResult.federalTax.forms.form832
         toSave  == form832 /\ ~page.skipFICA
         info    == page.ficaEmployerInfo
         missingFields ==
           \E i \in 1..Len(info) : info[i].employerName = "" \/ info[i].employerAddress = ""
         stored1 == IF page.taxResult # NoResult
                      THEN [sessionStorage EXCEPT !.taxResult = page.taxResult]
                      ELSE sessionStorage
         stored2 == IF toSave
                      THEN [stored1 EXCEPT !.formData =
                              [page.formData EXCEPT !.ficaEmployerInfo = info]]
                      ELSE stored1
     IN IF toSave /\ Len(info) > 0 /\ missingFields
          THEN /\ page' = [page EXCEPT !.ficaEmployerError = TRUE]
               /\ UNCHANGED sessionStorage
          ELSE /\ sessionStorage' = stored2
               /\ page' = PaymentPage(stored2)
  /\ UNCHANGED << zip, nonFlowVars >>

\* Opening /payment directly (address bar, history, reload): PaymentPage's
\* mount effect reads sessionStorage and selects every applicable product.
OpenPayment ==
  /\ page' = PaymentPage(sessionStorage)
  /\ UNCHANGED << sessionStorage, zip, nonFlowVars >>

toggleProduct(id) ==
  /\ page.route = "payment"
  /\ ~page.paymentSuccess
  /\ id \in getApplicableProducts(page.formData)
  /\ page' = [page EXCEPT !.selectedIds =
                IF id \in @ THEN @ \ {id} ELSE @ \cup {id}]
  /\ UNCHANGED << sessionStorage, zip, nonFlowVars >>

\* The checkout completes (card payment, or 'Continue' when nothing is due);
\* it is offered only with at least one product selected.
setPaymentSuccess ==
  /\ page.route = "payment"
  /\ ~page.paymentSuccess
  /\ page.formData # NoFormData
  /\ page.selectedIds # {}
  /\ page' = [page EXCEPT !.paymentSuccess = TRUE]
  /\ UNCHANGED << sessionStorage, zip, nonFlowVars >>

\* PaymentSuccessScreen.generateZip (auto-send effect, Download button).
generateZip ==
  /\ page.route = "payment"
  /\ page.paymentSuccess
  /\ LET effectiveTaxResult == IF page.taxResult = NoResult
                                 THEN getMinimalTaxResultFor8843 ELSE page.taxResult
     IN zip' = createZipFromPaidProducts(page.selectedIds, page.formData, effectiveTaxResult)
  /\ UNCHANGED << sessionStorage, page, nonFlowVars >>

FlowNext ==
  \/ OpenForm
  \/ OpenFormReview
  \/ \E fd \in FlowForms : updateFormData(fd)
  \/ handleNext
  \/ OpenSuccess
  \/ \E checked \in BOOLEAN : setSkipFICA(checked)
  \/ \E i \in 1..MaxEntries, entry \in EmployerEntries : setFicaEmployerInfo(i, entry)
  \/ handleProceedToPayment
  \/ OpenPayment
  \/ \E id \in {"form8843", "federal", "illinois", "fica"} : toggleProduct(id)
  \/ setPaymentSuccess
  \/ generateZip

FlowSpec == Init /\ [][FlowNext]_vars

\* ------------------------------------------- days calculator specification
\* Dates the visits are drawn from, the current dates, and the years Form 8843
\* asks the day count for.
VisitDays ==
  { Aug15_2023, Jan10_2024, Jun10_2024, Dec31_2024, May10_2025, Jan5_2026 }

Todays == { Jul1_2025, Mar1_2026 }

QueriedYears == { 2023, 2024, 2025 }

\* Step 3 validation: every visit has an entry date, and every visit but the
\* last has an exit date.  A visit ends after it begins.
wellFormedVisit(v) ==
  /\ v.entryDate # NoDate
  /\ v.exitDate # NoDate => v.entryDate < v.exitDate

addVisit(entry, exit) ==
  /\ daysInUS = NoDays
  /\ Len(residencyInfo.visits) < MaxVisits
  /\ \A i \in 1..Len(residencyInfo.visits) : residencyInfo.visits[i].exitDate # NoDate
  /\ wellFormedVisit([entryDate |-> entry, exitDate |-> exit])
  /\ residencyInfo' = [residencyInfo EXCEPT
                         !.visits = Append(@, [entryDate |-> entry, exitDate |-> exit])]
  /\ UNCHANGED << clock, daysInUS, nonDaysVars >>

\* The browser the form is filled in: its time zone and its current date.
SetTimeZone(tz) ==
  /\ daysInUS = NoDays
  /\ residencyInfo.visits = << >>
  /\ clock' = [clock EXCEPT !.timeZone = tz]
  /\ UNCHANGED << residencyInfo, daysInUS, nonDaysVars >>

SetToday(d) ==
  /\ daysInUS = NoDays
  /\ residencyInfo.visits = << >>
  /\ clock' = [clock EXCEPT !.today = d]
  /\ UNCHANGED << residencyInfo, daysInUS, nonDaysVars >>

CalculateDays(year) ==
  /\ daysInUS = NoDays
  /\ daysInUS' = [ status |-> "ok", year |-> year,
                   days |-> calculateDaysInUSForYear(residencyInfo, year, clock) ]
  /\ UNCHANGED << residencyInfo, clock, nonDaysVars >>

DaysNext ==
  \/ \E entry \in VisitDays, exit \in VisitDays \cup {NoDate} : addVisit(entry, exit)
  \/ \E tz \in TimeZones : SetTimeZone(tz)
  \/ \E d \in Todays : SetToday(d)
  \/ \E year \in QueriedYears : CalculateDays(year)

DaysSpec == Init /\ [][DaysNext]_vars

\* ------------------------------------------- package assembly specification
fillsOf(product) == { packageFills(product)[i] : i \in 1..Len(packageFills(product)) }

hasRejection(completed) ==
  \E k \in 1..Len(completed) : completed[k].result.status = "rejected"

\* create<Product>Package up to its fills: the document is created, the
\* explanation pages are added, the fills are issued.
startPackage(product) ==
  /\ assembly = NoAssembly
  /\ generation = NoGeneration
  /\ pdfForm = NoPdfForm
  /\ assembly' = [phase |-> "filling", product |-> product, completed |-> << >>]
  /\ UNCHANGED << generation, pdfForm, nonPackageVars >>

\* One of the issued fills settles: its template was fetched (or not) and the
\* filled document, with the template's pages, was saved.
settleFill(fill, response, pages) ==
  /\ assembly.phase = "filling"
  /\ fill \in fillsOf(assembly.product)
  /\ ~isSettled(assembly.completed, fill)
  /\ ~hasRejection(assembly.completed)
  /\ assembly' = [assembly EXCEPT
                    !.completed = Append(@, [fill |-> fill,
                                            result |-> fillForm(fill, response, pages)])]
  /\ UNCHANGED << generation, pdfForm, nonPackageVars >>

\* The await of the fills returns (all fulfilled) or throws (one rejected),
\* and the package is put together.
finishPackage ==
  /\ assembly.phase = "filling"
  /\ \/ hasRejection(assembly.completed)
     \/ \A fill \in fillsOf(assembly.product) : isSettled(assembly.completed, fill)
  /\ assembly' = [ phase |-> "done", product |-> assembly.product,
                   completed |-> assembly.completed,
                   result |-> createPackage(assembly.product,
                                PromiseAll(packageFills(assembly.product),
                                           assembly.completed)) ]
  /\ UNCHANGED << generation, pdfForm, nonPackageVars >>

\* handleGenerateForms: generateTaxForms(completeFormData, taxResult).
callGenerateTaxForms(flags, response) ==
  /\ assembly = NoAssembly
  /\ generation = NoGeneration
  /\ pdfForm = NoPdfForm
  /\ generation' = [ status |-> "done", flags |-> flags, response |-> response,
                     result |-> generateTaxForms(flags, response) ]
  /\ UNCHANGED << assembly, pdfForm, nonPackageVars >>

\* The templates that fail to load during one call fail the same way.
FormSetResponses ==
  { [t \in FormSetTemplates |-> IF t \in failing THEN how ELSE "ok"] :
      failing \in SUBSET FormSetTemplates, how \in Responses \ {"ok"} }

PackageNext ==
  \/ \E product \in ProductIds : startPackage(product)
  \/ \E product \in ProductIds, response \in Responses, pages \in 0..MaxPages :
       \E fill \in fillsOf(product) : settleFill(fill, response, pages)
  \/ finishPackage
  \/ \E flags \in FormFlags, response \in FormSetResponses :
       callGenerateTaxForms(flags, response)

PackageSpec == Init /\ [][PackageNext]_vars

\* ----------------------------------------------- field filling specification
loaded == pdfForm # NoPdfForm

\* loadPDFTemplate returned a document; `kinds` says what the template has
\* under each name the filler will write to.
loadTemplate(kinds) ==
  /\ pdfForm = NoPdfForm
  /\ assembly = NoAssembly
  /\ generation = NoGeneration
  /\ pdfForm' = [ status |-> "loaded",
                  fields |-> [n \in FieldNames |->
                                [kind |-> kinds[n], value |-> blankValue(kinds[n])]],
                  warnings |-> {},
                  raised |-> FALSE,
                  calls |-> << >> ]
  /\ UNCHANGED << assembly, generation, nonPackageVars >>

\* The filler's next statement runs only if no error left the one before.
canCall ==
  /\ loaded
  /\ ~pdfForm.raised
  /\ Len(pdfForm.calls) < MaxCalls

callSetTextField(fieldName, value) ==
  /\ canCall
  /\ pdfForm' = [setTextField(pdfForm, fieldName, value) EXCEPT
                   !.calls = Append(@, fieldName)]
  /\ UNCHANGED << assembly, generation, nonPackageVars >>

callSetCheckboxField(fieldName, checked) ==
  /\ canCall
  /\ pdfForm' = [setCheckboxField(pdfForm, fieldName, checked) EXCEPT
                   !.calls = Append(@, fieldName)]
  /\ UNCHANGED << assembly, generation, nonPackageVars >>

callSetRadioGroup(fieldName, optionValue) ==
  /\ canCall
  /\ pdfForm' = [setRadioGroup(pdfForm, fieldName, optionValue) EXCEPT
                   !.calls = Append(@, fieldName)]
  /\ UNCHANGED << assembly, generation, nonPackageVars >>

FillNext ==
  \/ \E kinds \in [FieldNames -> FieldKinds] : loadTemplate(kinds)
  \/ \E fieldName \in FieldNames, value \in TextValues :
       callSetTextField(fieldName, value)
  \/ \E fieldName \in FieldNames, checked \in BOOLEAN :
       callSetCheckboxField(fieldName, checked)
  \/ \E fieldName \in FieldNames, optionValue \in RadioOptions :
       callSetRadioGroup(fieldName, optionValue)

FillSpec == Init /\ [][FillNext]_vars

\* ------------------------------------------ FICA refund forms specification
\* SSNs typed in step 4: none, nine digits with dashes, five digits.
SSNValues ==
  { << >>,
    << "1", "2", "3", "-", "4", "5", "-", "6", "7", "8", "9" >>,
    << "1", "2", "3", "-", "4", "5" >> }

\* EINs of the W-2s: nine digits with the dash, nine other digits without it,
\* three digits, none.
EINValues ==
  { << "1", "2", "-", "3", "4", "5", "6", "7", "8", "9" >>,
    << "9", "8", "7", "6", "5", "4", "3", "2", "1" >>,
    << "4", "-", "5", "6" >>,
    << >> }

\* W-2s as the FICA fillers read them: FICA withheld ($1,860.40 social
\* security, $435.70 medicare) or not.
FicaW2Values ==
  { [ein |-> e, socialSecurityWithheld |-> f[1], medicareWithheld |-> f[2]] :
      e \in EINValues, f \in { << 0, 0 >>, << 186040, 43570 >> } }

\* Employer entries: blank, a name of spaces with an address, name and address
\* typed with spaces around the name.
FicaEmployerValues ==
  { [employerName |-> << >>, employerAddress |-> << >>],
    [employerName |-> << " ", " " >>, employerAddress |-> << "1", " ", "M", "a", "i", "n" >>],
    [employerName |-> << " ", "A", "c", "m", "e", " " >>,
     employerAddress |-> << "9", " ", "E", "l", "m" >>] }

ficaEditing == ficaForms = NoForms

SetSSN(ssn) ==
  /\ ficaEditing
  /\ ficaInput' = [ficaInput EXCEPT !.ssn = ssn]
  /\ UNCHANGED << ficaForms, nonFicaVars >>

AddFicaW2(w2) ==
  /\ ficaEditing
  /\ Len(ficaInput.w2Forms) < MaxEntries
  /\ ficaInput' = [ficaInput EXCEPT !.w2Forms = Append(@, w2)]
  /\ UNCHANGED << ficaForms, nonFicaVars >>

AddFicaEmployer(entry) ==
  /\ ficaEditing
  /\ Len(ficaInput.ficaEmployerInfo) < MaxEntries
  /\ ficaInput' = [ficaInput EXCEPT !.ficaEmployerInfo = Append(@, entry)]
  /\ UNCHANGED << ficaForms, nonFicaVars >>

\* createFicaPackage: fillForm843 and fillForm8316 run on the same form data.
CreateFicaForms ==
  /\ ficaEditing
  /\ ficaForms' = [ status |-> "filled",
                    form843  |-> fillForm843(ficaInput),
                    form8316 |-> fillForm8316(ficaInput) ]
  /\ UNCHANGED << ficaInput, nonFicaVars >>

FicaNext ==
  \/ \E ssn \in SSNValues : SetSSN(ssn)
  \/ \E w2 \in FicaW2Values : AddFicaW2(w2)
  \/ \E entry \in FicaEmployerValues : AddFicaEmployer(entry)
  \/ CreateFicaForms

FicaSpec == Init /\ [][FicaNext]_vars

\* ------------------------------------------- federal brackets specification
\* Whole-dollar taxable incomes looked up: the first dollars, the dollars
\* within BoundaryWindow of each bracket's upper end, and $1,500,000.
TaxableDollars ==
  (0..BoundaryWindow)
    \cup UNION { { TAX_BRACKETS[i].max \div 100 + k : k \in (0 - BoundaryWindow)..BoundaryWindow } :
                 i \in 1..(Len(TAX_BRACKETS) - 1) }
    \cup { 1500000 }

\* Gross incomes in cents: below the standard deduction, and the deduction
\* plus each of the taxable incomes, with or without 50 cents on top.
GrossIncomes ==
  { 0, 1000000 }
    \cup { STANDARD_DEDUCTION + 100 * t + c : t \in TaxableDollars, c \in {0, 50} }

\* The form data of a filer from India whose only income is one W-2.
wageForm(wages) ==
  [ EmptyForm EXCEPT !.country = "India", !.hadUSIncome = TRUE,
      !.w2Forms = << [ wages |-> wages, federalTaxWithheld |-> 0, stateTaxWithheld |-> 0,
                       socialSecurityWithheld |-> 0, medicareWithheld |-> 0 ] >> ]

\* calculateFederalTax on one wage amount, with what it passes to the bracket
\* lookup and what the lookup returns.
CalculateFederalTaxOn(wages) ==
  /\ bracketLookup' =
       LET fd == wageForm(wages)
           taxableIncome == federalTaxableIncome(fd)
       IN [ status |-> "ok",
            grossIncome |-> calculateGrossIncome(fd),
            taxableIncome |-> taxableIncome,
            bracket |-> findBracket(taxableIncome),
            progressiveTax |-> calculateProgressiveTax(taxableIncome),
            taxOwed |-> calculateFederalTax(fd).taxOwed ]
  /\ UNCHANGED nonLookupVars

BracketNext == \E wages \in GrossIncomes : CalculateFederalTaxOn(wages)

BracketSpec == Init /\ [][BracketNext]_vars

\* ------------------------------------------------- checkout specification
\* Promo codes as typed: none, the five codes (one in lower case with spaces
\* around it), and a code that does not exist.
TypedCodes ==
  { << >>, SAVE10OVER50, GUNTURKIMIRCHI, SAVE5, F1TAX,
    << " ", "s", "a", "v", "e", "1", "0", " " >>,
    << "F", "R", "E", "E" >> }

\* PaymentPage's mount effect for stored form data: every applicable product
\* is selected and no promo code is applied.
mountPaymentPage(fd) ==
  /\ checkout = NoCheckout
  /\ checkout' = [ status |-> "open",
                   applicable |-> getApplicableProducts(fd),
                   selectedIds |-> getApplicableProducts(fd),
                   appliedPromo |-> NoPromo,
                   promoError |-> FALSE,
                   charged |-> NoDiscount ]
  /\ UNCHANGED nonCheckoutVars

\* toggleProduct on the payment page's own state.
toggleSelected(id) ==
  /\ checkout.status = "open"
  /\ id \in checkout.applicable
  /\ checkout' = [checkout EXCEPT !.selectedIds =
                    IF id \in @ THEN @ \ {id} ELSE @ \cup {id}]
  /\ UNCHANGED nonCheckoutVars

\* handleApplyPromo with promoCode as typed; the promo row is rendered only
\* with a product selected.
handleApplyPromo(promoCode) ==
  /\ checkout.status = "open"
  /\ checkout.selectedIds # {}
  /\ LET code     == toUpperCase(trim(promoCode))
         total    == sumPrices(checkout.selectedIds)
         discount == promoDiscount(code, total)
     IN checkout' =
          IF code = << >> THEN [checkout EXCEPT !.promoError = TRUE]
          ELSE IF discount = NoDiscount
            THEN [checkout EXCEPT !.promoError = TRUE, !.appliedPromo = NoPromo]
          ELSE [checkout EXCEPT !.promoError = FALSE,
                                !.appliedPromo = [code |-> code, discount |-> discount]]
  /\ UNCHANGED nonCheckoutVars

\* The checkout completes: 'Continue' when nothing is due, the card form for
\* a total of at least $0.50; below that no way to pay is offered.
completeCheckout ==
  /\ checkout.status = "open"
  /\ checkout.selectedIds # {}
  /\ finalTotal(checkout) = 0 \/ finalTotal(checkout) >= 500
  /\ checkout' = [checkout EXCEPT !.status = "paid", !.charged = finalTotal(checkout)]
  /\ UNCHANGED nonCheckoutVars

CheckoutNext ==
  \/ \E fd \in FlowForms : mountPaymentPage(fd)
  \/ \E id \in {"form8843", "federal", "illinois", "fica"} : toggleSelected(id)
  \/ \E promoCode \in TypedCodes : handleApplyPromo(promoCode)
  \/ completeCheckout

CheckoutSpec == Init /\ [][CheckoutNext]_vars

\* ========================================================== tax engine claims

\* C1 (as stated): in the federal result and in the Illinois result,
\* refund = max(0, withheld - taxOwed) and amountOwed = max(0, taxOwed - withheld)
\* exactly, withheld being the jurisdiction's withholding total, and refund and
\* amountOwed are never both positive.  Stated here for filers with a W-2.
C1_Original ==
  (taxResult.status = "ok" /\ formData.hadUSIncome /\ Len(formData.w2Forms) > 0) =>
    LET fed  == taxResult.federalTax
        st   == taxResult.stateTax
        fedW == calculateTotalTaxWithheld(formData)
        stW  == calculateStateTaxWithheld(formData)
    IN /\ fed.refund = Max(0, fedW - fed.taxOwed)
       /\ fed.amountOwed = Max(0, fed.taxOwed - fedW)
       /\ ~(fed.refund > 0 /\ fed.amountOwed > 0)
       /\ formData.incomeState = "Illinois" =>
            /\ st.refund = Max(0, stW - st.taxOwed)
            /\ st.amountOwed = Max(0, st.taxOwed - stW)
            /\ ~(st.refund > 0 /\ st.amountOwed > 0)

\* C1 (amended): refund = floor(max(0, withheld - taxOwed)) and
\* amountOwed = floor(max(0, taxOwed - withheld)), floored to whole dollars, in
\* the federal result (withheld = unfloored sum of federal withholding) and in
\* the Illinois result (withheld = sum of per-entry floored state withholding,
\* where the floor changes nothing); refund and amountOwed are never both positive.
C1_RefundOwedFloored ==
  taxResult.status = "ok" =>
    LET fed  == taxResult.federalTax
        st   == taxResult.stateTax
        fedW == SumSeq(FederalTaxWithheld, formData.w2Forms)
                  + SumSeq(FederalTaxWithheld, formData.form1099INT)
                  + SumSeq(FederalTaxWithheld, formData.form1099MISC)
        stW  == SumSeq(FlooredStateTaxWithheld, formData.w2Forms)
                  + SumSeq(FlooredStateTaxWithheld, formData.form1099INT)
                  + SumSeq(FlooredStateTaxWithheld, formData.form1099MISC)
    IN /\ fed.refund = FloorDollars(Max(0, fedW - fed.taxOwed))
       /\ fed.amountOwed = FloorDollars(Max(0, fed.taxOwed - fedW))
       /\ ~(fed.refund > 0 /\ fed.amountOwed > 0)
       /\ formData.incomeState = "Illinois" =>
            /\ st.refund = Max(0, stW - st.taxOwed)
            /\ st.amountOwed = Max(0, st.taxOwed - stW)
            /\ ~(st.refund > 0 /\ st.amountOwed > 0)

\* C1 witness: a computed result whose federal withholding total carries cents
\* and exceeds the tax, with an Illinois result next to it.
C1_Witness ==
  /\ taxResult.status = "ok"
  /\ formData.incomeState = "Illinois"
  /\ calculateTotalTaxWithheld(formData) % 100 # 0
  /\ taxResult.federalTax.refund > 0
  /\ taxResult.stateTax.amountOwed > 0

\* C2 (as stated): in both results exactly one of refund and amountOwed is
\* nonzero, and both are >= 0 (stated here for Illinois filers with a W-2).
C2_Original ==
  ( /\ taxResult.status = "ok"
    /\ formData.hadUSIncome
    /\ formData.incomeState = "Illinois"
    /\ Len(formData.w2Forms) > 0 ) =>
    /\ taxResult.federalTax.refund >= 0 /\ taxResult.federalTax.amountOwed >= 0
    /\ (taxResult.federalTax.refund # 0) # (taxResult.federalTax.amountOwed # 0)
    /\ taxResult.stateTax.refund >= 0 /\ taxResult.stateTax.amountOwed >= 0
    /\ (taxResult.stateTax.refund # 0) # (taxResult.stateTax.amountOwed # 0)

\* C2 (amended): in both results refund and amountOwed are >= 0 and at most one
\* of them is nonzero; both are zero exactly when withholding and tax differ by
\* less than a dollar (federal), when Illinois withholding equals the Illinois
\* tax, or when the state result is the non-Illinois placeholder.
C2_AtMostOneNonzero ==
  taxResult.status = "ok" =>
    LET fed  == taxResult.federalTax
        st   == taxResult.stateTax
        fedD == calculateTotalTaxWithheld(formData) - fed.taxOwed
        stD  == calculateStateTaxWithheld(formData) - st.taxOwed
    IN /\ fed.refund >= 0 /\ fed.amountOwed >= 0
       /\ ~(fed.refund # 0 /\ fed.amountOwed # 0)
       /\ (fed.refund = 0 /\ fed.amountOwed = 0) <=> (fedD > -100 /\ fedD < 100)
       /\ st.refund >= 0 /\ st.amountOwed >= 0
       /\ ~(st.refund # 0 /\ st.amountOwed # 0)
       /\ (st.refund = 0 /\ st.amountOwed = 0)
            <=> (formData.incomeState # "Illinois" \/ stD = 0)

\* C2 witness: a filer with a W-2 and an Illinois return whose federal refund
\* and federal amount owed are both zero.
C2_Witness ==
  /\ taxResult.status = "ok"
  /\ formData.incomeState = "Illinois"
  /\ Len(formData.w2Forms) > 0
  /\ taxResult.federalTax.refund = 0
  /\ taxResult.federalTax.amountOwed = 0
  /\ taxResult.stateTax.refund > 0

\* C3 (as stated): the Illinois withholding total of the state tax computation,
\* the withholding total on Form IL-1040 and `Total amount` on Schedule IL-WIT
\* are the same integer: the sum of floor(stateTaxWithheld) over all W-2,
\* interest and misc entries.
C3_WithholdingIdentity ==
  illinoisForms.status = "filled" =>
    LET total == SumSeq(FlooredStateTaxWithheld, formData.w2Forms)
                   + SumSeq(FlooredStateTaxWithheld, formData.form1099INT)
                   + SumSeq(FlooredStateTaxWithheld, formData.form1099MISC)
    IN /\ calculateStateTaxWithheld(formData) = total
       /\ illinoisForms.il1040.IllinoisIncomeTaxWithheld = total
       /\ illinoisForms.ilwit.TotalAmount = total

C6_IllinoisFlatRate ==
  (taxResult.status = "ok" /\ formData.incomeState = "Illinois") =>
    LET gross == SumSeq(Wages, formData.w2Forms)
                   + SumSeq(InterestIncome, formData.form1099INT)
                   + SumSeq(OtherIncome, formData.form1099MISC)
        ex    == IF gross > 25000000 THEN 0 ELSE 285000
        ti    == FloorDollars(Max(0, gross - ex))
        st    == taxResult.stateTax
    IN /\ st.taxOwed = FloorDollars(MulDiv(ti, 495, 10000))
       /\ ( /\ Len(formData.w2Forms) = 1
            /\ formData.form1099INT = << >> /\ formData.form1099MISC = << >>
            /\ formData.w2Forms[1].wages = 3000000
            /\ formData.w2Forms[1].stateTaxWithheld = 100000 )
          => (st.taxOwed = 134300 /\ st.refund = 0 /\ st.amountOwed = 34300)

\* C6 witness: the one-W-2 Illinois scenario (wages 30000, state withholding 1000) computed.
C6_Witness ==
  /\ taxResult.status = "ok"
  /\ formData.incomeState = "Illinois"
  /\ Len(formData.w2Forms) = 1
  /\ formData.form1099INT = << >> /\ formData.form1099MISC = << >>
  /\ formData.w2Forms[1].wages = 3000000
  /\ formData.w2Forms[1].stateTaxWithheld = 100000
  /\ taxResult.stateTax.amountOwed = 34300

\* C7: the Illinois personal exemption is 2850 for every grossIncome <= 250000
\* (250000 included) and 0 for every grossIncome > 250000 (250001 included),
\* nothing in between, and the tax computation, Form IL-1040 and Schedule NR
\* all use that same exemption.
C7_ExemptionCliff ==
  LET gross == SumSeq(Wages, formData.w2Forms)
                 + SumSeq(InterestIncome, formData.form1099INT)
                 + SumSeq(OtherIncome, formData.form1099MISC)
      ex    == illinoisExemption(formData)
  IN /\ gross <= 25000000 => ex = 285000
     /\ gross > 25000000 => ex = 0
     /\ illinoisForms.status = "filled" =>
          /\ illinoisForms.il1040.ExemptionAmount = ex
          /\ illinoisForms.il1040.ExemptionAllowance = ex
          /\ illinoisForms.nr.Line49 = ex
          /\ illinoisForms.nr.Line50 = ex
          /\ taxResult.stateTax.taxOwed
               = FloorDollars(MulDiv(FloorDollars(Max(0, gross - ex)), 495, 10000))

\* C7 witness: Illinois forms filled for a filer whose gross income is exactly 250000.
C7_Witness ==
  /\ illinoisForms.status = "filled"
  /\ calculateGrossIncomeIllinois(formData) = 25000000
  /\ illinoisForms.il1040.ExemptionAmount = 285000

\* C8: federal and state taxOwed, refund and amountOwed are whole-dollar
\* integers, also for records whose amounts carry fractional cents.
C8_WholeDollars ==
  taxResult.status = "ok" =>
    /\ taxResult.federalTax.taxOwed % 100 = 0
    /\ taxResult.federalTax.refund % 100 = 0
    /\ taxResult.federalTax.amountOwed % 100 = 0
    /\ taxResult.stateTax.taxOwed % 100 = 0
    /\ taxResult.stateTax.refund % 100 = 0
    /\ taxResult.stateTax.amountOwed % 100 = 0

\* C8 witness: a result computed from income and withholding that all carry cents.
C8_Witness ==
  /\ taxResult.status = "ok"
  /\ formData.incomeState = "Illinois"
  /\ calculateGrossIncome(formData) % 100 # 0
  /\ calculateGrossIncome(formData) > 1575000
  /\ calculateTotalTaxWithheld(formData) % 100 # 0
  /\ taxResult.federalTax.amountOwed > 0

C10_NonIllinoisPlaceholder ==
  (taxResult.status = "ok" /\ formData.incomeState # "Illinois") =>
    /\ taxResult.stateTax.taxOwed = 0
    /\ taxResult.stateTax.refund = 0
    /\ taxResult.stateTax.amountOwed = 0
    /\ taxResult.stateTax.forms.form1040 = FALSE
    /\ "state/illinois" \notin rulesRun

\* C10 witness: a filer with US wages and state withholding whose income state
\* is Other, computed.
C10_Witness ==
  /\ taxResult.status = "ok"
  /\ formData.incomeState = "Other"
  /\ formData.hadUSIncome
  /\ Len(formData.w2Forms) > 0
  /\ calculateStateTaxWithheld(formData) > 0

\* ============================================================ page flow claims

\* C4: whatever the filer does (form entry, calculation, navigation, product
\* selection, payment), no ZIP holds the federal or the Illinois return bundle of
\* a filer with US income whose federal + state amountOwed exceeds their
\* federal + state refund.
C4_NoBundleOnNetUnderpayment ==
  zip.created =>
    LET filerResult == calculateTax(zip.formData)
    IN (/\ zip.formData.hadUSIncome
        /\ filerResult.status = "ok"
        /\ hasNetUnderpayment(filerResult))
       => zip.files \cap {"Federal_Tax_Return_2025.pdf", "Illinois_State_Return_2025.pdf"} = {}

\* ------------------------------------------------------------------ C11
\* Other (social security, medicare) amounts a W-2 could carry instead of its
\* own: none at all, or medicare only.
FICAAlternatives == { << 0, 0 >>, << 0, 43500 >> }

\* The form data with W-2 i's FICA amounts replaced by alt[i], all else equal.
withFICA(fd, alt) ==
  [ fd EXCEPT !.w2Forms =
      [ i \in 1..Len(fd.w2Forms) |->
          [ fd.w2Forms[i] EXCEPT !.socialSecurityWithheld = alt[i][1],
                                 !.medicareWithheld = alt[i][2] ] ] ]

\* The six amounts of a result.
amountsOf(tr) ==
  << tr.federalTax.taxOwed, tr.federalTax.refund, tr.federalTax.amountOwed,
     tr.stateTax.taxOwed, tr.stateTax.refund, tr.stateTax.amountOwed >>

\* C11: the federal result's FICA flag (form832) is true exactly when the sum
\* of socialSecurityWithheld + medicareWithheld over the W-2s is > 0, and
\* replacing only the FICA amounts of the W-2s changes none of the federal or
\* state taxOwed, refund and amountOwed (and the flag follows the new sum).
C11_FicaFlagOnly ==
  taxResult.status = "ok" =>
    /\ taxResult.federalTax.forms.form832 <=> (SumSeq(FICAWithheld, formData.w2Forms) > 0)
    /\ \A alt \in [1..Len(formData.w2Forms) -> FICAAlternatives] :
         LET other == calculateTax(withFICA(formData, alt))
         IN /\ other.status = "ok"
            /\ amountsOf(other) = amountsOf(taxResult)
            /\ other.federalTax.forms.form832
                  <=> (\E i \in 1..Len(formData.w2Forms) : alt[i][1] + alt[i][2] > 0)

\* A computed result for a W-2 with FICA withheld: the flag is up and the
\* federal refund is the one of the same W-2 without FICA.
C11_Witness ==
  /\ taxResult.status = "ok"
  /\ Len(formData.w2Forms) = 1
  /\ FICAWithheld(formData.w2Forms[1]) > 0
  /\ taxResult.federalTax.forms.form832
  /\ taxResult.federalTax.refund = 52900

\* ------------------------------------------------------------------ C12
\* The tax result PaymentSuccessScreen hands to bundle generation.
effectiveTaxResult(p) ==
  IF p.taxResult = NoResult THEN getMinimalTaxResultFor8843 ELSE p.taxResult

\* C12: for a filer with hadUSIncome false, whatever W-2s or income state the
\* form data still holds, the payment page offers and selects only the Form
\* 8843 product, and the federal and state results it hands on, and those a
\* ZIP was generated with, are the all-zero placeholders.
C12_NoIncomePlaceholder ==
  /\ (page.route = "payment" /\ page.formData # NoFormData /\ ~page.formData.hadUSIncome)
       => /\ getApplicableProducts(page.formData) = {"form8843"}
          /\ page.selectedIds \subseteq {"form8843"}
          /\ effectiveTaxResult(page) = getMinimalTaxResultFor8843
  /\ (zip.created /\ ~zip.formData.hadUSIncome)
       => /\ zip.files = {"Form_8843_2025.pdf"}
          /\ zip.taxResult = getMinimalTaxResultFor8843
\* ------------------------------------------------------------------ C13
\* C13: calculateDaysInUSForYear counts a visit as the half-open interval
\* [entry, exit): a visit whose exit date lies within the queried year
\* contributes exactly (exit - clipped entry) days, the entry day counted and
\* the exit day not.  Stated for lists whose visits all exit within the year.
exitsWithin(v, year) ==
  /\ v.exitDate # NoDate
  /\ YearStart(year) <= v.exitDate
  /\ v.exitDate <= YearEnd(year)

halfOpenDays(ri, year) ==
  SumSeq(LAMBDA v : v.exitDate - Max(v.entryDate, YearStart(year)), ri.visits)

C13_HalfOpenWithinYear ==
  ( /\ daysInUS.status = "ok"
    /\ \A i \in 1..Len(residencyInfo.visits) :
         exitsWithin(residencyInfo.visits[i], daysInUS.year) )
  => daysInUS.days = halfOpenDays(residencyInfo, daysInUS.year)

\* ------------------------------------------------------------------ C14
\* Dates a visit's entry or exit is moved to: the visit dates, the first and
\* the last day of a year, and the days next to them.
MovedDays ==
  { d + k : d \in VisitDays \cup {Jan1_2024, Dec31_2025}, k \in {-1, 0, 1} }

withExitDate(ri, i, x) == [ri EXCEPT !.visits[i].exitDate = x]

withEntryDate(ri, i, e) == [ri EXCEPT !.visits[i].entryDate = e]

\* C14: for a well-formed visit list and every queried year the day count does
\* not decrease when one visit's exit date moves later (entry fixed) and does
\* not increase when one visit's entry date moves later (exit fixed).
C14_Monotone ==
  daysInUS.status = "ok" =>
    \A i \in 1..Len(residencyInfo.visits) :
      LET v == residencyInfo.visits[i]
      IN /\ \A x \in MovedDays :
              (v.exitDate # NoDate /\ x > v.exitDate)
                => calculateDaysInUSForYear(withExitDate(residencyInfo, i, x),
                                            daysInUS.year, clock) >= daysInUS.days
         /\ \A e \in MovedDays :
              (e > v.entryDate /\ wellFormedVisit([v EXCEPT !.entryDate = e]))
                => calculateDaysInUSForYear(withEntryDate(residencyInfo, i, e),
                                            daysInUS.year, clock) <= daysInUS.days

\* A visit from 2023 that ends in June 2024, counted for 2024 in Chicago: a
\* later exit counts more days, a later entry fewer.
C14_Witness ==
  /\ daysInUS = [status |-> "ok", year |-> 2024, days |-> 160]
  /\ clock.timeZone = "America/Chicago"
  /\ residencyInfo.visits = << [entryDate |-> Aug15_2023, exitDate |-> Jun10_2024] >>
  /\ calculateDaysInUSForYear(withExitDate(residencyInfo, 1, Jan5_2026), 2024, clock) = 366
  /\ calculateDaysInUSForYear(withEntryDate(residencyInfo, 1, Jan10_2024), 2024, clock) = 151

\* ------------------------------------------------------------------ C15
\* The visits before the last one.
earlierVisits(ri) == SubSeq(ri.visits, 1, Len(ri.visits) - 1)

lastVisit(ri) == ri.visits[Len(ri.visits)]

\* C15: a visit without exit date, counted for a year that is entirely in the
\* past, contributes every day from its clipped entry through December 31
\* inclusive; open since before January 1 it contributes the whole year.
C15_OpenVisitPastYear ==
  ( /\ daysInUS.status = "ok"
    /\ residencyInfo.visits # << >>
    /\ lastVisit(residencyInfo).exitDate = NoDate
    /\ lastVisit(residencyInfo).entryDate <= YearEnd(daysInUS.year)
    /\ clock.today > YearEnd(daysInUS.year) )
  => daysInUS.days
       = calculateDaysInUSForYear([visits |-> earlierVisits(residencyInfo)],
                                  daysInUS.year, clock)
         + ( YearEnd(daysInUS.year)
             - Max(lastVisit(residencyInfo).entryDate, YearStart(daysInUS.year)) + 1 )
\* ------------------------------------------------------------------ C16
\* C16: in every package returned, every sub-document is there: a
\* sub-document that produced zero pages either aborted the assembly with an
\* error or was replaced by a placeholder page; none is silently missing.
C16_NoSubDocumentMissing ==
  (assembly.phase = "done" /\ assembly.result.status = "fulfilled") =>
    \A fill \in fillsOf(assembly.product) :
      \E k \in 1..Len(assembly.result.pages) :
        /\ assembly.result.pages[k].doc = templateOf(fill)
        /\ assembly.result.pages[k].kind \in {"copied", "placeholder"}

\* ------------------------------------------------------------------ C17
\* The templates of the forms the tax result asks for.
templatesAskedFor(flags) ==
  (IF flags.form8843 THEN {"f8843"} ELSE {})
    \cup (IF flags.form1040 THEN {"f1040nr"} ELSE {})
    \cup (IF flags.stateForm1040
            THEN {"il-1040", "il-1040-schedule-nr", "il-1040-schedule-il-wit"} ELSE {})
    \cup (IF flags.form832 THEN {"f843", "f8316"} ELSE {})

\* C17: when a template fails to load (fetch failure or non-OK response)
\* during the generation of a sub-document, the generation operation fails
\* too: neither generateTaxForms nor a package returns a result without it.
C17_TemplateFailurePropagates ==
  /\ ( /\ generation.status = "done"
       /\ \E t \in templatesAskedFor(generation.flags) : generation.response[t] # "ok" )
       => generation.result.status = "rejected"
  /\ (assembly.phase = "done" /\ hasRejection(assembly.completed))
       => assembly.result.status = "rejected"

\* ------------------------------------------------------------------ C18
\* Names the loaded template has no field under.
absentFields == { n \in FieldNames : pdfForm.fields[n].kind = "absent" }

\* C18: setting a text, checkbox or radio value on a field name that is absent
\* from the template never raises an error; the value is not set, no other
\* field of the document is changed, and the filling goes on.
C18_AbsentFieldIsSkipped ==
  loaded =>
    /\ ~pdfForm.raised
    /\ \A n \in absentFields :
         /\ pdfForm.fields[n].value = ""
         /\ \A value \in TextValues :
              LET after == setTextField(pdfForm, n, value)
              IN after.fields = pdfForm.fields /\ ~after.raised
         /\ \A checked \in BOOLEAN :
              LET after == setCheckboxField(pdfForm, n, checked)
              IN after.fields = pdfForm.fields /\ ~after.raised
         /\ \A optionValue \in RadioOptions :
              LET after == setRadioGroup(pdfForm, n, optionValue)
              IN after.fields = pdfForm.fields /\ ~after.raised

\* The template lacks the radio group 'A': the filler's first call, on 'A', is
\* skipped with a warning, and its next calls fill the telephone number and
\* tick the checkbox.
C18_Witness ==
  /\ loaded
  /\ pdfForm.calls = << "A", "FillText12", "c1_1" >>
  /\ absentFields = {"A"}
  /\ pdfForm.warnings = {"A"}
  /\ pdfForm.fields["A"].value = ""
  /\ pdfForm.fields["FillText12"].value = "3125550100"
  /\ pdfForm.fields["c1_1"].value = "checked"

\* ------------------------------------------------------------------ C19
\* Place of a page's document in its package: the instructions, then the
\* documents in the order the package names them.
placeInPackage(product, pg) ==
  IF pg.kind = "instructions" THEN 0
  ELSE CHOOSE i \in 1..Len(packageFills(product)) :
         templateOf(packageFills(product)[i]) = pg.doc

needsSignature(product, pg) ==
  pg.kind # "instructions" /\ pg.doc \in signatureRequired(product)

\* C19: every assembled package has a fixed page order, whatever the order in
\* which its concurrently issued fills settled: the instruction pages first,
\* then the forms to be signed, then the supporting schedules, each document's
\* pages together and in their own order.
C19_FixedPageOrder ==
  (assembly.phase = "done" /\ assembly.result.status = "fulfilled") =>
    LET pages == assembly.result.pages
        product == assembly.product
    IN /\ pages[1].kind = "instructions"
       /\ \A i, j \in 1..Len(pages) :
            i < j =>
              /\ pages[j].kind # "instructions"
              /\ placeInPackage(product, pages[i]) <= placeInPackage(product, pages[j])
              /\ pages[i].doc = pages[j].doc => pages[i].page < pages[j].page
              /\ needsSignature(product, pages[j]) =>
                   (pages[i].kind = "instructions" \/ needsSignature(product, pages[i]))

\* The federal package whose fills settled in the reverse of the order they
\* were issued in.
C19_Witness ==
  /\ assembly.phase = "done"
  /\ assembly.product = "federal"
  /\ assembly.result.status = "fulfilled"
  /\ Len(assembly.completed) = 3
  /\ [k \in 1..3 |-> assembly.completed[k].fill]
       = << "fillForm8843", "fillForm1040NRO", "fillForm1040NR" >>
  /\ [k \in 1..Len(assembly.result.pages) |-> assembly.result.pages[k].doc]
       = << "instructions", "f1040nr", "f1040nr", "f1040nro", "f8843" >>

\* ------------------------------------------------------------------ C20
\* C20: bank details are written onto a return only as refund deposit
\* instructions: a return with a routing or account number on it shows a
\* refund, and a return that shows an amount owed has none.
C20_BankDetailsOnlyWithRefund ==
  /\ ( /\ illinoisForms.status = "filled"
       /\ \/ illinoisForms.deposit.RoutingNumber # ""
          \/ illinoisForms.deposit.AccountNumber # ""
          \/ illinoisForms.deposit.account_type # "untouched" )
       => (illinoisForms.il1040.RefundedToYou > 0 /\ taxResult.stateTax.amountOwed = 0)
  /\ ( /\ federalForms.status = "filled"
       /\ (federalForms.f1040nr.f2_38 # "" \/ federalForms.f1040nr.f2_39 # "") )
       => (federalForms.f1040nr.f2_37 > 0 /\ taxResult.federalTax.amountOwed = 0)

\* ======================================================= FICA refund claims

\* ------------------------------------------------------------------ C21
\* Positions in the W-2 list of the W-2s with FICA withheld.
ficaPositions(fd) == { j \in 1..Len(fd.w2Forms) : FICAWithheld(fd.w2Forms[j]) > 0 }

\* The i-th W-2 with FICA withheld: the one preceded by i - 1 others.
nthFicaW2(fd, i) ==
  LET j == CHOOSE j \in ficaPositions(fd) :
             Cardinality({ m \in ficaPositions(fd) : m < j }) = i - 1
  IN fd.w2Forms[j]

\* C21: for a filer with k W-2s having socialSecurityWithheld +
\* medicareWithheld > 0, Form 8316 carries exactly k employer blocks; block i
\* carries the EIN of the i-th such W-2 with the (trimmed) name and address of
\* the i-th ficaEmployerInfo entry, no entry beyond the k-th is used, and no
\* EIN of a W-2 without FICA withholding is written on Form 8316 or Form 843.
C21_EmployerInfoAligned ==
  ficaForms.status = "filled" =>
    LET fd     == ficaInput
        k      == Cardinality(ficaPositions(fd))
        header == ficaForms.form8316.employerHeader
        info   == fd.ficaEmployerInfo
        ficaEINs == { einFormatted(fd.w2Forms[j]) : j \in ficaPositions(fd) }
    IN /\ Len(header) = k
       /\ \A i \in 1..k :
            /\ header[i].einLine = << "EIN: " >> \o einFormatted(nthFicaW2(fd, i))
            /\ header[i].name = (IF i <= Len(info) THEN trim(info[i].employerName) ELSE << >>)
            /\ header[i].address =
                 (IF i <= Len(info) THEN trim(info[i].employerAddress) ELSE << >>)
            /\ \A part \in { header[i].parts[n] : n \in 1..Len(header[i].parts) } :
                 part \in { header[i].name, header[i].address, header[i].einLine }
       /\ \A j \in (1..Len(fd.w2Forms)) \ ficaPositions(fd) :
            einFormatted(fd.w2Forms[j]) \notin ficaEINs =>
              /\ \A i \in 1..Len(header) :
                   header[i].einLine # << "EIN: " >> \o einFormatted(fd.w2Forms[j])
              /\ fd.w2Forms[j].ein # << >> =>
                   ficaForms.form843.employerEIN # fd.w2Forms[j].ein

\* Two W-2s, only the second with FICA withheld, and one employer entry: the
\* single block pairs that entry with the second W-2's EIN.
C21_Witness ==
  /\ ficaForms.status = "filled"
  /\ Len(ficaInput.w2Forms) = 2
  /\ FICAWithheld(ficaInput.w2Forms[1]) = 0
  /\ FICAWithheld(ficaInput.w2Forms[2]) > 0
  /\ ficaInput.w2Forms[1].ein = << "9", "8", "7", "6", "5", "4", "3", "2", "1" >>
  /\ Len(ficaInput.ficaEmployerInfo) = 1
  /\ Len(ficaForms.form8316.employerHeader) = 1
  /\ ficaForms.form8316.employerHeader[1].name = << "A", "c", "m", "e" >>
  /\ ficaForms.form8316.employerHeader[1].einLine =
       << "EIN: ", "1", "2", "-", "3", "4", "5", "6", "7", "8", "9" >>

\* ------------------------------------------------------------------ C22
\* XXX-XX-XXXX of nine digits.
ssnGrouping(d) ==
  SubSeq(d, 1, 3) \o << "-" >> \o SubSeq(d, 4, 5) \o << "-" >> \o SubSeq(d, 6, 9)

\* XX-XXXXXXX of nine digits.
einGrouping(d) == SubSeq(d, 1, 2) \o << "-" >> \o SubSeq(d, 3, 9)

hasDash(text) == \E n \in 1..Len(text) : text[n] = "-"

\* `written` renders the typed value `raw` as claimed: with dashes only as the
\* grouping of nine digits, and as the bare digits for any other length.
renderedAsClaimed(written, raw, grouping(_)) ==
  LET d == digitsOf(raw)
  IN /\ hasDash(written) => (Len(d) = 9 /\ written = grouping(d))
     /\ Len(d) # 9 => written = d

daysInYear(year) == YearEnd(year) - YearStart(year) + 1

\* C23: whatever visits reach calculateDaysInUSForYear, the count for a year
\* lies between 0 and the number of calendar days of that year, so no day is
\* counted more than once.
C23_NoDayCountedTwice ==
  daysInUS.status = "ok" =>
    /\ daysInUS.days >= 0
    /\ daysInUS.days <= daysInYear(daysInUS.year)

\* ======================================================= page flow claims

\* ------------------------------------------------------------------ C24
\* An employer entry of the results page with a blank name or address.
hasBlankEmployerEntry ==
  \E i \in 1..Len(page.ficaEmployerInfo) :
     \/ page.ficaEmployerInfo[i].employerName = ""
     \/ page.ficaEmployerInfo[i].employerAddress = ""

\* C24: 'Proceed to Payment' pressed on the results page while the FICA
\* product applies, the filer has not opted out and an employer entry has a
\* blank name or address is refused: sessionStorage is left as it was and the
\* results page stays, showing the employer error.
C24_ProceedRefused ==
  [][ ( /\ handleProceedToPayment
        /\ "fica" \in getApplicableProducts(page.formData)
        /\ ~page.skipFICA
        /\ hasBlankEmployerEntry )
      => ( /\ sessionStorage' = sessionStorage
           /\ page'.route = "success"
           /\ page'.ficaEmployerError ) ]_vars

\* The refusal has happened: the error is shown on the results page for a
\* blank entry and nothing is stored for the payment page.
C24_Witness ==
  /\ page.route = "success"
  /\ page.ficaEmployerError
  /\ hasBlankEmployerEntry
  /\ ~page.skipFICA
  /\ sessionStorage.taxResult = NoResult
  /\ sessionStorage.formData.ficaEmployerInfo = << >>

\* ================================================== federal bracket claims

\* ------------------------------------------------------------------ C25
\* Brackets of the table that contain a taxable income.
bracketsContaining(taxableIncome) ==
  { i \in 1..Len(TAX_BRACKETS) :
      TAX_BRACKETS[i].min <= taxableIncome /\ taxableIncome <= TAX_BRACKETS[i].max }

C26_TaxOwedMonotone ==
  bracketLookup.status = "ok" =>
    \A wages \in GrossIncomes :
       wages <= bracketLookup.grossIncome =>
         calculateFederalTax(wageForm(wages)).taxOwed <= bracketLookup.taxOwed

\* The first dollar of the third bracket ($48,476 taxable) has been calculated;
\* its taxOwed, $5,578, equals that of the last dollar of the second bracket.
C26_Witness ==
  /\ bracketLookup.status = "ok"
  /\ bracketLookup.taxableIncome = TAX_BRACKETS[3].min
  /\ bracketLookup.bracket = 3
  /\ bracketLookup.taxOwed = 557800
  /\ calculateFederalTax(wageForm(STANDARD_DEDUCTION + TAX_BRACKETS[2].max)).taxOwed = 557800

\* ------------------------------------------------------------------ C27
\* The tax result that belongs to a form: the one calculateTax computes from
\* it, or the all-zero placeholder for a filer without US income.
resultComputedFrom(fd) ==
  IF fd.hadUSIncome THEN calculateTax(fd) ELSE getMinimalTaxResultFor8843

\* C27: whatever the navigation between the form, results and payment pages,
\* a generated bundle is filled from form data and from the tax result
\* computed from that same form data: not a result of earlier inputs, and not
\* the all-zero placeholder when the filer has US income.
C27_ResultMatchesFormData ==
  zip.created => zip.taxResult = resultComputedFrom(zip.formData)

\* ------------------------------------------------------------------ C28
\* C28: when 'Proceed to Payment' is pressed with the FICA opt-out checked, the
\* payment page it opens neither offers nor preselects the FICA product (so
\* that no FICA bundle can be paid for and generated).
C28_OptOutDropsFica ==
  [][ (handleProceedToPayment /\ page.skipFICA /\ page'.route = "payment")
      => ( /\ "fica" \notin getApplicableProducts(page'.formData)
           /\ "fica" \notin page'.selectedIds ) ]_vars

\* ========================================================== checkout claims

\* ------------------------------------------------------------------ C29
\* C29: after any product toggles and promo-code applications, the discount in
\* effect is what the applied code grants for the products now selected (so a
\* code with a minimum total is in effect only while the total meets it), and
\* the amount charged is the total of the selection less that discount.
\* (With nothing selected the page shows neither discount nor total.)
C29_DiscountFollowsSelection ==
  ( /\ checkout.status # "none"
    /\ checkout.selectedIds # {}
    /\ checkout.appliedPromo # NoPromo ) =>
    LET total == sumPrices(checkout.selectedIds)
    IN /\ checkout.appliedPromo.discount = promoDiscount(checkout.appliedPromo.code, total)
       /\ checkout.status = "paid" =>
            checkout.charged = Max(0, total - promoDiscount(checkout.appliedPromo.code, total))

\* ==================================================== federal return claims

====
